---- MODULE Spec2Model ----
(***************************************************************************)
(* Model of the KittenTTS worker (kittentts_worker.py): the command        *)
(* decoder (main), the Synthesis Stage (synth_loop) and the Playback Stage *)
(* (play_loop), the two queues between them, the generation counter and    *)
(* the output stream of events.  The three threads interleave at every     *)
(* shared access: queue put/get, get_generation/bump_generation,           *)
(* stop_event and emit.                                                    *)
(*                                                                         *)
(* Environment: the caller gives the k-th speak/pause command the k-th     *)
(* identifier of IdChars, so identifiers of different jobs differ.         *)
(*                                                                         *)
(* The module also models the agent_api tool (test/agent_api): the policy  *)
(* check (policy.py), the token selection (cli.py, session.py), the config *)
(* loader (config.py) and the call command (cli.py, http_client.py), each  *)
(* under a specification of its own.                                       *)
(***************************************************************************)
EXTENDS Integers, Sequences, FiniteSets, TLC

\* ------------------------------------------------------------------ bounds
MaxJobs == 2      \* speak/pause commands that parse to a job
MaxClears == 2    \* clear commands
MaxBad == 2       \* input lines answered with an input-stage error (SpecInput)
MaxInputJobs == 1    \* jobs in a run that also sends rejected lines (SpecInput)
MaxInputClears == 1  \* clears in such a run (SpecInput)
MaxLiveJobs == 2     \* jobs in a run checked for termination (SpecLive)
MaxLiveClears == 1   \* clears in such a run
MaxStartupJobs == 1  \* jobs in a run followed from process start (SpecStartup)
MaxStartupClears == 1 \* clears in such a run
MaxStampedJobs == 1  \* jobs in a run whose commands carry a generation (SpecStamped)
MaxBumps == 2        \* bump_generation calls followed step by step (SpecGen)
MaxReads == 2        \* get_generation calls of each stage in such a run

\* The characters commands are written with: a blank, identifier characters
\* (one per job) and a letter of text.
SP == " "
IdChars == <<"a", "b", "c", "d", "e", "f">>
TextChar == "h"

\* ------------------------------------------------------------------ strings
\* str.strip(): a string is a sequence of characters.
RECURSIVE LStrip(_)
LStrip(s) == IF s # <<>> /\ Head(s) = SP THEN LStrip(Tail(s)) ELSE s

RECURSIVE RStrip(_)
RStrip(s) ==
    IF s # <<>> /\ s[Len(s)] = SP THEN RStrip(SubSeq(s, 1, Len(s) - 1)) ELSE s

Strip(s) == RStrip(LStrip(s))

\* ------------------------------------------------------------------ records
\* A float: a finite number in tenths (10 is 1.0), or nan, or an infinity.
Float(tenths) == [kind |-> "finite", tenths |-> tenths]
NaN == [kind |-> "nan", tenths |-> 0]
Infinity == [kind |-> "inf", tenths |-> 0]

\* SpeakJob / PauseJob (one record shape; pause_ms is 0 in a SpeakJob, text
\* is empty and speed is 0.0 in a PauseJob), SynthResult, and the None
\* sentinel.  The voice of a SpeakJob is left out.
SpeakJob(chunk_id, text, speed, generation) ==
    [kind |-> "speak", chunk_id |-> chunk_id, text |-> text, pause_ms |-> 0,
     speed |-> speed, generation |-> generation]

PauseJob(chunk_id, pause_ms, generation) ==
    [kind |-> "pause", chunk_id |-> chunk_id, text |-> <<>>, pause_ms |-> pause_ms,
     speed |-> Float(0), generation |-> generation]

SynthResult(job, wav_path, synth_ms) ==
    [kind |-> "result", job |-> job, wav_path |-> wav_path, synth_ms |-> synth_ms]

None == [kind |-> "none"]

\* The generation an item of either queue carries.
ItemJob(item) == IF item.kind = "result" THEN item.job ELSE item

\* An output event.  id is <<>> where the event has none, stage is "" outside
\* error events, n is the number the event carries (generation, pause_ms,
\* synth_ms) or 0.
Event(type, id, stage, n) == [type |-> type, id |-> id, stage |-> stage, n |-> n]

\* ------------------------------------------------------------------ state
VARIABLES
    active_generation,  \* the generation counter
    stop_event,         \* threading.Event
    plan_queue,         \* queue.Queue: decoder -> Synthesis Stage
    play_queue,         \* queue.Queue: Synthesis Stage -> Playback Stage
    out,                \* stdout: the events emitted, in order
    files,              \* the temporary artifact files that exist
    main_pc,            \* position of main
    main_job,           \* main's local job (put, not yet acked)
    new_generation,     \* main's local new_generation
    main_exc,           \* main: an exception is propagating out of the read loop
    synth_pc,           \* position of synth_loop
    synth_job,          \* synth_loop's local job
    synth_wav,          \* synth_loop's local wav_path (<<>> is None)
    synth_ms,           \* synth_loop's local synth_ms
    play_pc,            \* position of play_loop
    play_item,          \* play_loop's local item
    play_code,          \* play_loop's local code
    submitted,          \* history: the jobs put on the plan queue, each with
                        \* the counter value at decode time and the generation
                        \* its command carried, if any
    checks,             \* history: per stage, the generation checks made
    cleared_while,      \* history: what each clear found queued or in progress
    rejected,           \* history: the input lines main rejected
    request,            \* agent_api: the arguments of the last validate_policy call
    verdict,            \* agent_api: how that call ended ("accepted" or an error code)
    config,             \* agent_api: the AppConfig that load_config returns
    session_file,       \* agent_api: the content of .agent-api/session.json
    context,            \* agent_api: the last load_runtime_context call and its result
    toml,               \* agent_api: the content of the config file, as tomllib reads it
    call,               \* agent_api: the call command under way, its arguments and locals
    http,               \* agent_api: the HTTP requests sent, in order
    command,            \* parsing alone: the command object given to parse_speak / parse_pause
    parsed,             \* parsing alone: what the parse returned
    reads               \* state_lock alone: per stage, the get_generation calls made

vars == <<active_generation, stop_event, plan_queue, play_queue, out, files,
          main_pc, main_job, new_generation, main_exc, synth_pc, synth_job, synth_wav,
          synth_ms, play_pc, play_item, play_code, submitted, checks, cleared_while, rejected,
          request, verdict, config, session_file, context, toml, call, http,
          command, parsed, reads>>

parse_vars == <<command, parsed>>
api_vars == <<request, verdict, config, session_file, context, toml, call, http>>

main_vars == <<main_pc, main_job, new_generation, main_exc>>
synth_vars == <<synth_pc, synth_job, synth_wav, synth_ms>>
play_vars == <<play_pc, play_item, play_code>>
hist_vars == <<submitted, checks, cleared_while, rejected>>

\* ------------------------------------------------------------------ shared
\* get_generation(): the counter, read under state_lock.
get_generation == active_generation

\* A bump that returns the value it read before the increment.
BumpReturnsOld ==
    [counter |-> active_generation + 1, returned |-> active_generation]

\* bump_generation(): increments under state_lock and returns the new value.
bump_generation ==
    [counter |-> active_generation + 1, returned |-> active_generation + 1]

\* A stage that skips the staleness test.
NeverStale(generation, seen) == FALSE

\* A staleness test that only rejects items stamped above the counter.
StaleOnlyAbove(generation, seen) == generation > seen

\* The staleness test both stages apply to a dequeued item.
Stale(generation, seen) == generation # seen

\* emit(payload): one whole record appended to stdout under emit_lock.
emit(payload) == out' = Append(out, payload)

\* safe_unlink(path)
safe_unlink(path) == files \ {path}

\* ------------------------------------------------------------------ parsing
\* A "generation", "pause_ms" field of a command: absent, an integer, or a
\* value int() rejects.
Absent == [tag |-> "absent", val |-> 0]
Malformed == [tag |-> "bad", val |-> 0]
IntField(n) == [tag |-> "int", val |-> n]

\* A parse whose default generation is 0 instead of the current one.
ParseGenerationDefaultZero(field) == IF field.tag = "int" THEN field.val ELSE 0

\* A parse that lifts a generation below the counter up to the counter.
ParseGenerationNotBelow(field) ==
    IF field.tag = "int" /\ field.val >= get_generation THEN field.val
    ELSE get_generation

\* int(obj.get("generation", get_generation())), falling back to
\* get_generation() on TypeError/ValueError.
ParseGeneration(field) == IF field.tag = "int" THEN field.val ELSE get_generation

\* Further values of a numeric field: a number with a fraction (in tenths),
\* a string that holds an integer numeral or a decimal numeral (in tenths), a
\* boolean (0 or 1), and the NaN and Infinity that json.loads accepts.
FloatField(t) == [tag |-> "float", val |-> t]
NumStr(n) == [tag |-> "numstr", val |-> n]
FloatStr(t) == [tag |-> "floatstr", val |-> t]
BoolField(b) == [tag |-> "bool", val |-> b]
NaNField == [tag |-> "nan", val |-> 0]
InfField == [tag |-> "inf", val |-> 0]

\* int() of a float: the fraction is cut off.
Trunc(t) == IF t >= 0 THEN t \div 10 ELSE -((-t) \div 10)

\* int(obj.get("pause_ms", 0)), 0 on TypeError/ValueError.  int() of an
\* infinity raises OverflowError, which is neither: see IntOverflows.
ParsePauseMs(field) ==
    IF field.tag \in {"int", "numstr", "bool"} THEN field.val
    ELSE IF field.tag = "float" THEN Trunc(field.val)
    ELSE 0

IntOverflows(field) == field.tag = "inf"

\* float(obj.get("speed", 1.0)), 1.0 on TypeError/ValueError.
ParseSpeed(field) ==
    IF field.tag \in {"int", "numstr", "bool"} THEN Float(10 * field.val)
    ELSE IF field.tag \in {"float", "floatstr"} THEN Float(field.val)
    ELSE IF field.tag = "nan" THEN NaN
    ELSE IF field.tag = "inf" THEN Infinity
    ELSE Float(10)

Max(a, b) == IF a >= b THEN a ELSE b

\* A parse that accepts a speak command whose text is empty.
ParseSpeakAnyText(obj) ==
    LET chunk_id == Strip(obj.id)
        text == Strip(obj.text)
        speed == ParseSpeed(obj.speed)
        generation == ParseGeneration(obj.generation)
    IN  IF chunk_id = <<>>
        THEN None
        ELSE SpeakJob(chunk_id, text, speed, generation)

\* parse_speak(obj): None when id or text is empty after strip().
parse_speak(obj) ==
    LET chunk_id == Strip(obj.id)
        text == Strip(obj.text)
        speed == ParseSpeed(obj.speed)
        generation == ParseGeneration(obj.generation)
    IN  IF chunk_id = <<>> \/ text = <<>>
        THEN None
        ELSE SpeakJob(chunk_id, text, speed, generation)

\* parse_pause(obj): None when id is empty after strip().
parse_pause(obj) ==
    LET chunk_id == Strip(obj.id)
        pause_ms == ParsePauseMs(obj.pause_ms)
        generation == ParseGeneration(obj.generation)
    IN  IF chunk_id = <<>>
        THEN None
        ELSE PauseJob(chunk_id, Max(0, pause_ms), generation)

\* The commands the caller may send as its next speak/pause line.
NextId == IdChars[Len(submitted) + Len(rejected) + 1]
RawIds == {<<>>, <<SP>>, <<NextId>>, <<SP, NextId, SP>>}
RawTexts == {<<>>, <<SP, SP>>, <<TextChar>>, <<SP, TextChar>>}
Unstamped == {Absent, Malformed}
Stamped == {IntField(1)}
PauseFields == {Absent, Malformed, IntField(-1), IntField(0)}
SpeakCommands(gens) == [id : RawIds, text : RawTexts, speed : {Absent}, generation : gens]
PauseCommands(gens) == [id : RawIds, pause_ms : PauseFields, generation : gens]

\* The elapsed times a synthesis may measure (synth_ms).
SynthMsValues == {1, 2}

\* The exit codes the player may return.
ExitCodes == {0, 1}

\* ------------------------------------------------------------------ Init
\* The worker does not use the agent_api tool: no call made, no config loaded,
\* no session file.
\* No command is parsed on its own.
NotParsed == [kind |-> "pending"]
ParseUnused ==
    /\ command = [op |-> ""]
    /\ parsed = NotParsed

\* No get_generation call is followed step by step.
NoReads == reads = [synth |-> <<>>, play |-> <<>>]

NoContext ==
    [override_token_name |-> None, session_file |-> None, code |-> "",
     token_name |-> <<>>, token_value |-> ""]

\* No config file is read and no call command runs.
NoCall == [pc |-> "none"]
CallUnused ==
    /\ toml = None
    /\ call = NoCall
    /\ http = <<>>

ApiUnused ==
    /\ CallUnused
    /\ request = [api_mode |-> "", method |-> <<>>, json_body |-> None,
                  confirm_delete |-> FALSE]
    /\ verdict = ""
    /\ config = [default_token |-> <<>>, tokens |-> <<>>]
    /\ session_file = None
    /\ context = NoContext

Init ==
    /\ active_generation = 0
    /\ stop_event = FALSE
    /\ plan_queue = <<>>
    /\ play_queue = <<>>
    /\ out = <<>>
    /\ files = {}
    /\ main_pc = "read"
    /\ main_job = None
    /\ new_generation = 0
    /\ main_exc = FALSE
    /\ synth_pc = "loop"
    /\ synth_job = None
    /\ synth_wav = <<>>
    /\ synth_ms = 0
    /\ play_pc = "loop"
    /\ play_item = None
    /\ play_code = 0
    /\ submitted = <<>>
    /\ checks = [synth |-> <<>>, play |-> <<>>]
    /\ cleared_while = [planned |-> {}, playing |-> {}]
    /\ rejected = <<>>
    /\ ApiUnused
    /\ ParseUnused
    /\ NoReads

\* The state at the entry of main, past parse_args: no thread started yet.
InitStartup ==
    /\ active_generation = 0
    /\ stop_event = FALSE
    /\ plan_queue = <<>>
    /\ play_queue = <<>>
    /\ out = <<>>
    /\ files = {}
    /\ main_pc = "start"
    /\ main_job = None
    /\ new_generation = 0
    /\ main_exc = FALSE
    /\ synth_pc = "unstarted"
    /\ synth_job = None
    /\ synth_wav = <<>>
    /\ synth_ms = 0
    /\ play_pc = "unstarted"
    /\ play_item = None
    /\ play_code = 0
    /\ submitted = <<>>
    /\ checks = [synth |-> <<>>, play |-> <<>>]
    /\ cleared_while = [planned |-> {}, playing |-> {}]
    /\ rejected = <<>>
    /\ ApiUnused
    /\ ParseUnused
    /\ NoReads

\* One generation check of a stage, as the history keeps it: the job's id and
\* generation, the counter value read, and whether stop_event was set when
\* the stage made the check.
Check(job, seen) ==
    [id |-> job.chunk_id, generation |-> job.generation, seen |-> seen,
     stopped |-> stop_event]

\* ------------------------------------------------------------------ emit, write by write
\* print(json.dumps(payload), flush=True) makes two writes to stdout, the
\* record's text and then the line end, and a thread switch can fall between
\* them.  In the specification below out is the sequence of these writes and
\* each thread is followed through one call of emit.
Threads == {"main", "synth", "play"}

Newline == [type |-> "newline", id |-> <<>>, stage |-> "", n |-> 0]

PcOf(t) ==
    IF t = "main" THEN main_pc ELSE IF t = "synth" THEN synth_pc ELSE play_pc

SetPc(t, pc) ==
    /\ main_pc' = IF t = "main" THEN pc ELSE main_pc
    /\ synth_pc' = IF t = "synth" THEN pc ELSE synth_pc
    /\ play_pc' = IF t = "play" THEN pc ELSE play_pc

\* The record each thread is about to emit: main the ack of the job it has
\* put, synth_loop the synth_done of its job, play_loop the play_done or the
\* error of its item.
Payload(t) ==
    IF t = "main" THEN Event("ack", main_job.chunk_id, "", 0)
    ELSE IF t = "synth" THEN Event("synth_done", synth_job.chunk_id, "", synth_ms)
    ELSE IF play_code # 0 THEN Event("error", play_item.job.chunk_id, "play", 0)
    ELSE Event("play_done", play_item.job.chunk_id, "", play_item.synth_ms)

\* emit_lock is held by the thread that is inside the with block.
LockHolders == {t \in Threads : PcOf(t) \in {"write", "newline", "release"}}

EmitFrame ==
    UNCHANGED <<api_vars, parse_vars, reads, active_generation, stop_event, plan_queue, play_queue, files,
                main_job, new_generation, main_exc, synth_job, synth_wav,
                synth_ms, play_item, play_code, hist_vars>>

\* An emit that enters the with block without waiting for the lock.
EmitAcquireNoLock(t) ==
    /\ PcOf(t) = "emit"
    /\ SetPc(t, "write")
    /\ out' = out
    /\ EmitFrame

\* with emit_lock: the thread waits until no thread holds the lock.
EmitAcquire(t) ==
    /\ PcOf(t) = "emit"
    /\ LockHolders = {}
    /\ SetPc(t, "write")
    /\ out' = out
    /\ EmitFrame

\* print: the text of the record is written.
EmitWrite(t) ==
    /\ PcOf(t) = "write"
    /\ out' = Append(out, Payload(t))
    /\ SetPc(t, "newline")
    /\ EmitFrame

\* print: the line end is written, and stdout flushed.
EmitNewline(t) ==
    /\ PcOf(t) = "newline"
    /\ out' = Append(out, Newline)
    /\ SetPc(t, "release")
    /\ EmitFrame

\* The with block ends: the lock is released and emit returns.
EmitRelease(t) ==
    /\ PcOf(t) = "release"
    /\ SetPc(t, "emitted")
    /\ out' = out
    /\ EmitFrame

\* Three jobs a, b, c: main has put c and is about to ack it, synth_loop has
\* synthesized b and is about to emit its synth_done, play_loop has played a
\* and is about to emit its play_done or its error.
JobA == SpeakJob(<<IdChars[1]>>, <<TextChar>>, Float(10), 0)
JobB == SpeakJob(<<IdChars[2]>>, <<TextChar>>, Float(10), 0)
JobC == SpeakJob(<<IdChars[3]>>, <<TextChar>>, Float(10), 0)

NoStamp == [given |-> FALSE, val |-> 0]

InitEmit ==
    /\ active_generation = 0
    /\ stop_event = FALSE
    /\ plan_queue = <<JobC>>
    /\ play_queue = <<>>
    /\ out = <<Event("ack", JobA.chunk_id, "", 0), Newline,
               Event("synth_done", JobA.chunk_id, "", 1), Newline,
               Event("ack", JobB.chunk_id, "", 0), Newline>>
    /\ files = {JobB.chunk_id}
    /\ main_pc = "emit"
    /\ main_job = JobC
    /\ new_generation = 0
    /\ main_exc = FALSE
    /\ synth_pc = "emit"
    /\ synth_job = JobB
    /\ synth_wav = JobB.chunk_id
    /\ synth_ms \in SynthMsValues
    /\ play_pc = "emit"
    /\ play_item = SynthResult(JobA, JobA.chunk_id, 1)
    /\ play_code \in ExitCodes
    /\ submitted = <<[job |-> JobA, born |-> 0, stamp |-> NoStamp],
                     [job |-> JobB, born |-> 0, stamp |-> NoStamp],
                     [job |-> JobC, born |-> 0, stamp |-> NoStamp]>>
    /\ checks = [synth |-> <<Check(JobA, 0), Check(JobB, 0)>>,
                 play |-> <<Check(JobA, 0)>>]
    /\ cleared_while = [planned |-> {}, playing |-> {}]
    /\ rejected = <<>>
    /\ ApiUnused
    /\ ParseUnused
    /\ NoReads

NextEmit ==
    \E t \in Threads :
        \/ EmitAcquire(t)
        \/ EmitWrite(t)
        \/ EmitNewline(t)
        \/ EmitRelease(t)

SpecEmit == InitEmit /\ [][NextEmit]_vars

\* ------------------------------------------------------------------ startup
\* What can keep startup from completing: IMPORT_ERROR is set, pick_player
\* finds no player, KittenOnnxModel(...) raises.
StartupFailures == {"import", "player", "model"}

\* A failed startup that emits fatal and goes on to start the workers.
MainFatalGoesOn ==
    /\ main_pc = "start"
    /\ \E cause \in StartupFailures : emit(Event("fatal", <<>>, "", 0))
    /\ main_pc' = "start_play"
    /\ synth_pc' = "loop"
    /\ UNCHANGED <<api_vars, parse_vars, reads, active_generation, stop_event, plan_queue, play_queue, files,
                   main_job, new_generation, main_exc, synth_job, synth_wav,
                   synth_ms, play_vars, hist_vars>>

\* Startup cannot complete: emit fatal and return 1.
MainFatal ==
    /\ main_pc = "start"
    /\ \E cause \in StartupFailures : emit(Event("fatal", <<>>, "", 0))
    /\ main_pc' = "failed"
    /\ UNCHANGED <<api_vars, parse_vars, reads, active_generation, stop_event, plan_queue, play_queue, files,
                   main_job, new_generation, main_exc, synth_vars, play_vars,
                   hist_vars>>

\* The three checks pass: synth_thread.start().
MainStartSynth ==
    /\ main_pc = "start"
    /\ main_pc' = "start_play"
    /\ synth_pc' = "loop"
    /\ UNCHANGED <<api_vars, parse_vars, reads, active_generation, stop_event, plan_queue, play_queue, out,
                   files, main_job, new_generation, main_exc, synth_job,
                   synth_wav, synth_ms, play_vars, hist_vars>>

\* play_thread.start()
MainStartPlay ==
    /\ main_pc = "start_play"
    /\ main_pc' = "ready"
    /\ play_pc' = "loop"
    /\ UNCHANGED <<api_vars, parse_vars, reads, active_generation, stop_event, plan_queue, play_queue, out,
                   files, main_job, new_generation, main_exc, synth_vars,
                   play_item, play_code, hist_vars>>

\* emit({"type": "ready", ...}); the read loop follows.
MainReady ==
    /\ main_pc = "ready"
    /\ emit(Event("ready", <<>>, "", 0))
    /\ main_pc' = "read"
    /\ UNCHANGED <<api_vars, parse_vars, reads, active_generation, stop_event, plan_queue, play_queue, files,
                   main_job, new_generation, main_exc, synth_vars, play_vars,
                   hist_vars>>

MainStartup == MainFatal \/ MainStartSynth \/ MainStartPlay \/ MainReady

\* The status the process exits with: 0 when main returns 0, 1 when it
\* returns 1 or ends with an uncaught exception; -1 while it runs.
ExitStatus ==
    IF main_pc = "done" THEN 0
    ELSE IF main_pc \in {"failed", "raised"} THEN 1
    ELSE -1

\* ------------------------------------------------------------------ main
\* What the decoder does with a parsed job: plan_queue.put(job), the ack
\* follows in MainAck.
Enqueue(job, obj) ==
    /\ plan_queue' = Append(plan_queue, job)
    /\ main_job' = job
    /\ main_pc' = "ack"
    /\ submitted' = Append(submitted,
           [job |-> job, born |-> get_generation,
            stamp |-> [given |-> obj.generation.tag = "int",
                       val |-> obj.generation.val]])
    /\ UNCHANGED <<api_vars, parse_vars, reads, active_generation, stop_event, play_queue, out, files,
                   new_generation, synth_vars, play_vars, checks,
                   cleared_while, rejected,
                   main_exc>>

\* A rejected line as the history keeps it: its op and, for a speak or pause
\* command, its id and text after strip().
Line(op, chunk_id, text) == [op |-> op, chunk_id |-> chunk_id, text |-> text]

\* An input-stage error: emit and continue with the next line.
InputError(line) ==
    /\ Len(rejected) < MaxBad
    /\ rejected' = Append(rejected, line)
    /\ emit(Event("error", <<>>, "input", 0))
    /\ UNCHANGED <<api_vars, parse_vars, reads, active_generation, stop_event, plan_queue, play_queue, files,
                   main_vars, synth_vars, play_vars, submitted, checks,
                   cleared_while>>

\* op == "speak", parse_speak returns a job.
MainSpeak ==
    /\ main_pc = "read"
    /\ Len(submitted) < MaxJobs
    /\ \E obj \in SpeakCommands(Unstamped) :
          /\ parse_speak(obj).kind # "none"
          /\ Enqueue(parse_speak(obj), obj)

\* The same for a command that carries an integer generation.
MainSpeakStamped ==
    /\ main_pc = "read"
    /\ Len(submitted) < MaxJobs
    /\ \E obj \in SpeakCommands(Stamped) :
          /\ parse_speak(obj).kind # "none"
          /\ Enqueue(parse_speak(obj), obj)

\* op == "speak", parse_speak returns None.
MainSpeakInvalid ==
    /\ main_pc = "read"
    /\ \E obj \in SpeakCommands(Unstamped \cup Stamped) :
          /\ parse_speak(obj).kind = "none"
          /\ InputError(Line("speak", Strip(obj.id), Strip(obj.text)))

\* op == "pause", parse_pause returns a job.
MainPause ==
    /\ main_pc = "read"
    /\ Len(submitted) < MaxJobs
    /\ \E obj \in PauseCommands(Unstamped) :
          /\ parse_pause(obj).kind # "none"
          /\ Enqueue(parse_pause(obj), obj)

\* The same for a command that carries an integer generation.
MainPauseStamped ==
    /\ main_pc = "read"
    /\ Len(submitted) < MaxJobs
    /\ \E obj \in PauseCommands(Stamped) :
          /\ parse_pause(obj).kind # "none"
          /\ Enqueue(parse_pause(obj), obj)

\* op == "pause", parse_pause returns None.
MainPauseInvalid ==
    /\ main_pc = "read"
    /\ \E obj \in PauseCommands(Unstamped \cup Stamped) :
          /\ parse_pause(obj).kind = "none"
          /\ InputError(Line("pause", Strip(obj.id), <<>>))

\* A line that is not JSON, or an object whose op is none of the four.
MainBadLine ==
    /\ main_pc = "read"
    /\ \E op \in {"notjson", "unknown"} : InputError(Line(op, <<>>, <<>>))

\* A line that is JSON but not an object (a list, a number, a string, null):
\* json.loads returns it and obj.get raises AttributeError, which nothing in
\* the loop catches.  The exception leaves the loop through the finally
\* block, which starts with stop_event.set().
MainNotObject ==
    /\ main_pc = "read"
    /\ Len(rejected) < MaxBad
    /\ rejected' = Append(rejected, Line("notobject", <<>>, <<>>))
    /\ main_exc' = TRUE
    /\ stop_event' = TRUE
    /\ main_pc' = "put"
    /\ UNCHANGED <<api_vars, parse_vars, reads, active_generation, plan_queue, play_queue, out, files,
                   main_job, new_generation, synth_vars, play_vars, submitted,
                   checks, cleared_while>>

\* A line that is empty after strip(): continue.
MainEmptyLine ==
    /\ main_pc = "read"
    /\ UNCHANGED vars

\* emit({"type": "ack", ...}) after the put.
MainAck ==
    /\ main_pc = "ack"
    /\ emit(Event("ack", main_job.chunk_id, "", 0))
    /\ main_pc' = "read"
    /\ UNCHANGED <<api_vars, parse_vars, reads, active_generation, stop_event, plan_queue, play_queue, files,
                   main_job, new_generation, synth_vars, play_vars, hist_vars,
                   main_exc>>

\* Identifiers of the items a clear finds: speak jobs still on the plan queue
\* that the new counter value is above, and the item the Playback Stage has
\* taken past its generation check.
PlannedBelow(g) ==
    {plan_queue[i].chunk_id : i \in {k \in 1..Len(plan_queue) :
        plan_queue[k].kind = "speak" /\ plan_queue[k].generation < g}}

InPlayback ==
    IF play_pc \in {"sleep", "play", "played"}
    THEN {ItemJob(play_item).chunk_id}
    ELSE {}

\* A clear that also empties the plan queue.
MainClearDrains ==
    /\ main_pc = "read"
    /\ active_generation < MaxClears
    /\ active_generation' = bump_generation.counter
    /\ new_generation' = bump_generation.returned
    /\ main_pc' = "cleared"
    /\ plan_queue' = <<>>
    /\ cleared_while' =
          [planned |-> cleared_while.planned \cup PlannedBelow(active_generation'),
           playing |-> cleared_while.playing \cup InPlayback]
    /\ UNCHANGED <<api_vars, parse_vars, reads, stop_event, play_queue, out, files, main_job,
                   synth_vars, play_vars, submitted, checks, rejected,
                   main_exc>>

\* op == "clear": new_generation = bump_generation().
MainClear ==
    /\ main_pc = "read"
    /\ active_generation < MaxClears
    /\ active_generation' = bump_generation.counter
    /\ new_generation' = bump_generation.returned
    /\ main_pc' = "cleared"
    /\ cleared_while' =
          [planned |-> cleared_while.planned \cup PlannedBelow(active_generation'),
           playing |-> cleared_while.playing \cup InPlayback]
    /\ UNCHANGED <<api_vars, parse_vars, reads, stop_event, plan_queue, play_queue, out, files, main_job,
                   synth_vars, play_vars, submitted, checks, rejected,
                   main_exc>>

\* emit({"type": "cleared", "generation": new_generation}).
MainCleared ==
    /\ main_pc = "cleared"
    /\ emit(Event("cleared", <<>>, "", new_generation))
    /\ main_pc' = "read"
    /\ UNCHANGED <<api_vars, parse_vars, reads, active_generation, stop_event, plan_queue, play_queue, files,
                   main_job, new_generation, synth_vars, play_vars, hist_vars,
                   main_exc>>

\* A teardown that also resets the counter.
MainShutdownResets ==
    /\ main_pc = "read"
    /\ stop_event' = TRUE
    /\ active_generation' = 0
    /\ main_pc' = "put"
    /\ UNCHANGED <<api_vars, parse_vars, reads, plan_queue, play_queue, out, files, main_job,
                   new_generation, synth_vars, play_vars, hist_vars,
                   main_exc>>

\* op == "shutdown" (break) or end of input: the finally block starts with
\* stop_event.set().
MainShutdown ==
    /\ main_pc = "read"
    /\ stop_event' = TRUE
    /\ main_pc' = "put"
    /\ UNCHANGED <<api_vars, parse_vars, reads, active_generation, plan_queue, play_queue, out, files,
                   main_job, new_generation, synth_vars, play_vars, hist_vars,
                   main_exc>>

\* plan_queue.put(None); play_queue.put(None).  No step of a stage depends on
\* the order of the two puts, so they are one step.
MainPutSentinels ==
    /\ main_pc = "put"
    /\ plan_queue' = Append(plan_queue, None)
    /\ play_queue' = Append(play_queue, None)
    /\ main_pc' = "join"
    /\ UNCHANGED <<api_vars, parse_vars, reads, active_generation, stop_event, out, files, main_job,
                   new_generation, synth_vars, play_vars, hist_vars,
                   main_exc>>

\* A thread that has left its loop, by break, by the loop test or by an
\* uncaught exception.
Finished(pc) == pc \in {"exited", "crashed"}

\* synth_thread.join(timeout=2.0); play_thread.join(timeout=2.0); return 0.
\* A join returns when its thread has finished, or on its timeout, which
\* elapses only while the thread is inside a collaborator call or a sleep.
\* main then returns, the process exits and its daemon threads stop where
\* they are; an exception that came through the finally block propagates.
MainJoin ==
    /\ main_pc = "join"
    /\ Finished(synth_pc) \/ synth_pc = "synth"
    /\ Finished(play_pc) \/ play_pc \in {"play", "sleep"}
    /\ main_pc' = IF main_exc THEN "raised" ELSE "done"
    /\ synth_pc' = IF Finished(synth_pc) THEN synth_pc ELSE "killed"
    /\ play_pc' = IF Finished(play_pc) THEN play_pc ELSE "killed"
    /\ UNCHANGED <<api_vars, parse_vars, reads, active_generation, stop_event, plan_queue, play_queue, out,
                   files, main_job, new_generation, synth_job, synth_wav,
                   synth_ms, play_item, play_code, hist_vars,
                   main_exc>>

\* The decoder past the read of a line: the ack, the cleared event and the
\* teardown.
MainRest ==
    \/ MainAck \/ MainCleared \/ MainShutdown \/ MainPutSentinels \/ MainJoin

\* The decoder on lines that parse to a command.
Main == MainSpeak \/ MainPause \/ MainClear \/ MainRest

\* The decoder on lines it rejects.
MainRejects ==
    \/ MainSpeakInvalid \/ MainPauseInvalid \/ MainBadLine \/ MainNotObject
    \/ MainEmptyLine

\* ------------------------------------------------------------------ synth_loop
\* A loop test that ignores the termination signal.
SynthStopSpins ==
    /\ synth_pc = "loop"
    /\ stop_event
    /\ synth_pc' = "get"
    /\ UNCHANGED <<api_vars, parse_vars, reads, active_generation, stop_event, plan_queue, play_queue, out,
                   files, main_vars, synth_job, synth_wav, synth_ms, play_vars,
                   hist_vars>>

\* while not stop_event.is_set(): the test fails, the loop ends.
SynthStop ==
    /\ synth_pc = "loop"
    /\ stop_event
    /\ synth_pc' = "exited"
    /\ UNCHANGED <<api_vars, parse_vars, reads, active_generation, stop_event, plan_queue, play_queue, out,
                   files, main_vars, synth_job, synth_wav, synth_ms, play_vars,
                   hist_vars>>

\* A loop head that waits on the queue whatever stop_event says.
SynthEnterUntested ==
    /\ synth_pc = "loop"
    /\ synth_pc' = "get"
    /\ UNCHANGED <<api_vars, parse_vars, reads, active_generation, stop_event, plan_queue, play_queue, out,
                   files, main_vars, synth_job, synth_wav, synth_ms, play_vars,
                   hist_vars>>

\* while not stop_event.is_set(): the test passes, the stage waits on its queue.
SynthEnter ==
    /\ synth_pc = "loop"
    /\ ~stop_event
    /\ synth_pc' = "get"
    /\ UNCHANGED <<api_vars, parse_vars, reads, active_generation, stop_event, plan_queue, play_queue, out,
                   files, main_vars, synth_job, synth_wav, synth_ms, play_vars,
                   hist_vars>>

\* plan_queue.get(timeout=0.2) raises queue.Empty: continue.  While stop_event
\* is clear the loop test passes again and the stage is back in the same get,
\* so only the timeout that leads to a failing test is a step.
SynthEmpty ==
    /\ synth_pc = "get"
    /\ plan_queue = <<>>
    /\ stop_event
    /\ synth_pc' = "loop"
    /\ UNCHANGED <<api_vars, parse_vars, reads, active_generation, stop_event, plan_queue, play_queue, out,
                   files, main_vars, synth_job, synth_wav, synth_ms, play_vars,
                   hist_vars>>

\* A get that takes the newest job of the plan queue.
SynthGetLast ==
    /\ synth_pc = "get"
    /\ plan_queue # <<>>
    /\ plan_queue[Len(plan_queue)].kind # "none"
    /\ synth_job' = plan_queue[Len(plan_queue)]
    /\ plan_queue' = SubSeq(plan_queue, 1, Len(plan_queue) - 1)
    /\ synth_pc' = "check"
    /\ UNCHANGED <<api_vars, parse_vars, reads, active_generation, stop_event, play_queue, out, files,
                   main_vars, synth_wav, synth_ms, play_vars, hist_vars>>

\* plan_queue.get returns a job.
SynthGet ==
    /\ synth_pc = "get"
    /\ plan_queue # <<>>
    /\ Head(plan_queue).kind # "none"
    /\ synth_job' = Head(plan_queue)
    /\ plan_queue' = Tail(plan_queue)
    /\ synth_pc' = "check"
    /\ UNCHANGED <<api_vars, parse_vars, reads, active_generation, stop_event, play_queue, out, files,
                   main_vars, synth_wav, synth_ms, play_vars, hist_vars>>

\* plan_queue.get returns None: break.
SynthSentinel ==
    /\ synth_pc = "get"
    /\ plan_queue # <<>>
    /\ Head(plan_queue).kind = "none"
    /\ plan_queue' = Tail(plan_queue)
    /\ synth_pc' = "exited"
    /\ UNCHANGED <<api_vars, parse_vars, reads, active_generation, stop_event, play_queue, out, files,
                   main_vars, synth_job, synth_wav, synth_ms, play_vars,
                   hist_vars>>

\* job.generation != get_generation(): continue.
SynthDrop ==
    /\ synth_pc = "check"
    /\ Stale(synth_job.generation, get_generation)
    /\ checks' = [checks EXCEPT !.synth = Append(@, Check(synth_job, get_generation))]
    /\ synth_pc' = "loop"
    /\ UNCHANGED <<api_vars, parse_vars, reads, active_generation, stop_event, plan_queue, play_queue, out,
                   files, main_vars, synth_job, synth_wav, synth_ms, play_vars,
                   submitted, cleared_while, rejected>>

\* A PauseJob passes the check; play_queue.put(job) follows.
SynthPassPause ==
    /\ synth_pc = "check"
    /\ synth_job.kind = "pause"
    /\ ~Stale(synth_job.generation, get_generation)
    /\ checks' = [checks EXCEPT !.synth = Append(@, Check(synth_job, get_generation))]
    /\ synth_pc' = "forward"
    /\ UNCHANGED <<api_vars, parse_vars, reads, active_generation, stop_event, plan_queue, play_queue, out,
                   files, main_vars, synth_job, synth_wav, synth_ms, play_vars,
                   submitted, cleared_while, rejected>>

\* A forward that stamps the job with the counter read at the put.
SynthForwardRestamped ==
    /\ synth_pc = "forward"
    /\ play_queue' = Append(play_queue,
           PauseJob(synth_job.chunk_id, synth_job.pause_ms, get_generation))
    /\ synth_pc' = "loop"
    /\ UNCHANGED <<api_vars, parse_vars, reads, active_generation, stop_event, plan_queue, out, files,
                   main_vars, synth_job, synth_wav, synth_ms, play_vars,
                   hist_vars>>

\* play_queue.put(job) for a PauseJob.
SynthForward ==
    /\ synth_pc = "forward"
    /\ play_queue' = Append(play_queue, synth_job)
    /\ synth_pc' = "loop"
    /\ UNCHANGED <<api_vars, parse_vars, reads, active_generation, stop_event, plan_queue, out, files,
                   main_vars, synth_job, synth_wav, synth_ms, play_vars,
                   hist_vars>>

\* A SpeakJob passes the check; wav_path = None, tempfile.mkstemp creates the
\* artifact file and model.generate_to_file starts.
SynthPassSpeak ==
    /\ synth_pc = "check"
    /\ synth_job.kind = "speak"
    /\ ~Stale(synth_job.generation, get_generation)
    /\ checks' = [checks EXCEPT !.synth = Append(@, Check(synth_job, get_generation))]
    /\ synth_wav' = synth_job.chunk_id
    /\ files' = files \cup {synth_job.chunk_id}
    /\ synth_pc' = "synth"
    /\ UNCHANGED <<api_vars, parse_vars, reads, active_generation, stop_event, plan_queue, play_queue, out,
                   main_vars, synth_job, synth_ms, play_vars, submitted,
                   cleared_while, rejected>>

\* A SpeakJob passes the check and tempfile.mkstemp raises: wav_path stays
\* None and control is in the except clause.
SynthMkstempFails ==
    /\ synth_pc = "check"
    /\ synth_job.kind = "speak"
    /\ ~Stale(synth_job.generation, get_generation)
    /\ checks' = [checks EXCEPT !.synth = Append(@, Check(synth_job, get_generation))]
    /\ synth_wav' = <<>>
    /\ synth_pc' = "except"
    /\ UNCHANGED <<api_vars, parse_vars, reads, active_generation, stop_event, plan_queue, play_queue, out,
                   files, main_vars, synth_job, synth_ms, play_vars, submitted,
                   cleared_while, rejected>>

\* A synthesis end that goes on to the put without the synth_done emit.
SynthDoneUnannounced ==
    /\ synth_pc = "synth"
    /\ \E ms \in SynthMsValues : synth_ms' = ms
    /\ synth_pc' = "put"
    /\ UNCHANGED <<api_vars, parse_vars, reads, active_generation, stop_event, plan_queue, play_queue, files,
                   out, main_vars, synth_job, synth_wav, play_vars, hist_vars>>

\* generate_to_file returns: synth_ms is measured and synth_done emitted.
SynthDone ==
    /\ synth_pc = "synth"
    /\ \E ms \in SynthMsValues :
          /\ synth_ms' = ms
          /\ emit(Event("synth_done", synth_job.chunk_id, "", ms))
    /\ synth_pc' = "put"
    /\ UNCHANGED <<api_vars, parse_vars, reads, active_generation, stop_event, plan_queue, play_queue, files,
                   main_vars, synth_job, synth_wav, play_vars, hist_vars>>

\* A put that places the SynthResult at the head of the play queue.
SynthPutFront ==
    /\ synth_pc = "put"
    /\ play_queue' = <<SynthResult(synth_job, synth_wav, synth_ms)>> \o play_queue
    /\ synth_pc' = "loop"
    /\ UNCHANGED <<api_vars, parse_vars, reads, active_generation, stop_event, plan_queue, out, files,
                   main_vars, synth_job, synth_wav, synth_ms, play_vars,
                   hist_vars>>

\* A put that places the SynthResult on the play queue twice.
SynthPutTwice ==
    /\ synth_pc = "put"
    /\ play_queue' = play_queue \o <<SynthResult(synth_job, synth_wav, synth_ms),
                                      SynthResult(synth_job, synth_wav, synth_ms)>>
    /\ synth_pc' = "loop"
    /\ UNCHANGED <<api_vars, parse_vars, reads, active_generation, stop_event, plan_queue, out, files,
                   main_vars, synth_job, synth_wav, synth_ms, play_vars,
                   hist_vars>>

\* A put that tests the generation once more and discards the result of a
\* job cleared meanwhile.
SynthPutIfCurrent ==
    /\ synth_pc = "put"
    /\ play_queue' = IF Stale(synth_job.generation, get_generation) THEN play_queue
                     ELSE Append(play_queue, SynthResult(synth_job, synth_wav, synth_ms))
    /\ files' = IF Stale(synth_job.generation, get_generation)
                THEN safe_unlink(synth_wav) ELSE files
    /\ synth_pc' = "loop"
    /\ UNCHANGED <<api_vars, parse_vars, reads, active_generation, stop_event, plan_queue, out,
                   main_vars, synth_job, synth_wav, synth_ms, play_vars,
                   hist_vars>>

\* play_queue.put(SynthResult(...))
SynthPut ==
    /\ synth_pc = "put"
    /\ play_queue' = Append(play_queue, SynthResult(synth_job, synth_wav, synth_ms))
    /\ synth_pc' = "loop"
    /\ UNCHANGED <<api_vars, parse_vars, reads, active_generation, stop_event, plan_queue, out, files,
                   main_vars, synth_job, synth_wav, synth_ms, play_vars,
                   hist_vars>>

\* generate_to_file raises: control is in the except clause.
SynthRaises ==
    /\ synth_pc = "synth"
    /\ synth_pc' = "except"
    /\ UNCHANGED <<api_vars, parse_vars, reads, active_generation, stop_event, plan_queue, play_queue, out,
                   files, main_vars, synth_job, synth_wav, synth_ms, play_vars,
                   hist_vars>>

\* An except clause that goes on to the put after the error event.
SynthErrorFallsThrough ==
    /\ synth_pc = "except"
    /\ files' = IF synth_wav # <<>> THEN safe_unlink(synth_wav) ELSE files
    /\ emit(Event("error", synth_job.chunk_id, "synth", 0))
    /\ synth_pc' = "put"
    /\ UNCHANGED <<api_vars, parse_vars, reads, active_generation, stop_event, plan_queue, play_queue,
                   main_vars, synth_job, synth_wav, synth_ms, play_vars,
                   hist_vars>>

\* An except clause that leaves the artifact file in place.
SynthErrorKeepsFile ==
    /\ synth_pc = "except"
    /\ emit(Event("error", synth_job.chunk_id, "synth", 0))
    /\ synth_pc' = "loop"
    /\ UNCHANGED <<api_vars, parse_vars, reads, active_generation, stop_event, plan_queue, play_queue, files,
                   main_vars, synth_job, synth_wav, synth_ms, play_vars,
                   hist_vars>>

\* except Exception: safe_unlink(wav_path) if wav_path, then the error event.
SynthError ==
    /\ synth_pc = "except"
    /\ files' = IF synth_wav # <<>> THEN safe_unlink(synth_wav) ELSE files
    /\ emit(Event("error", synth_job.chunk_id, "synth", 0))
    /\ synth_pc' = "loop"
    /\ UNCHANGED <<api_vars, parse_vars, reads, active_generation, stop_event, plan_queue, play_queue,
                   main_vars, synth_job, synth_wav, synth_ms, play_vars,
                   hist_vars>>

Synth ==
    \/ SynthStop \/ SynthEnter \/ SynthEmpty \/ SynthGet \/ SynthSentinel
    \/ SynthDrop \/ SynthPassPause \/ SynthForward \/ SynthPassSpeak
    \/ SynthMkstempFails \/ SynthDone \/ SynthPut \/ SynthRaises \/ SynthError

\* ------------------------------------------------------------------ play_loop
PlayStop ==
    /\ play_pc = "loop"
    /\ stop_event
    /\ play_pc' = "exited"
    /\ UNCHANGED <<api_vars, parse_vars, reads, active_generation, stop_event, plan_queue, play_queue, out,
                   files, main_vars, synth_vars, play_item, play_code, hist_vars>>

PlayEnter ==
    /\ play_pc = "loop"
    /\ ~stop_event
    /\ play_pc' = "get"
    /\ UNCHANGED <<api_vars, parse_vars, reads, active_generation, stop_event, plan_queue, play_queue, out,
                   files, main_vars, synth_vars, play_item, play_code, hist_vars>>

\* play_queue.get(timeout=0.2) raises queue.Empty: continue (as SynthEmpty).
PlayEmpty ==
    /\ play_pc = "get"
    /\ play_queue = <<>>
    /\ stop_event
    /\ play_pc' = "loop"
    /\ UNCHANGED <<api_vars, parse_vars, reads, active_generation, stop_event, plan_queue, play_queue, out,
                   files, main_vars, synth_vars, play_item, play_code, hist_vars>>

\* A get that takes the newest item of the play queue.
PlayGetLast ==
    /\ play_pc = "get"
    /\ play_queue # <<>>
    /\ play_queue[Len(play_queue)].kind # "none"
    /\ play_item' = play_queue[Len(play_queue)]
    /\ play_queue' = SubSeq(play_queue, 1, Len(play_queue) - 1)
    /\ play_pc' = "check"
    /\ UNCHANGED <<api_vars, parse_vars, reads, active_generation, stop_event, plan_queue, out, files,
                   main_vars, synth_vars, play_code, hist_vars>>

\* play_queue.get returns an item.
PlayGet ==
    /\ play_pc = "get"
    /\ play_queue # <<>>
    /\ Head(play_queue).kind # "none"
    /\ play_item' = Head(play_queue)
    /\ play_queue' = Tail(play_queue)
    /\ play_pc' = "check"
    /\ UNCHANGED <<api_vars, parse_vars, reads, active_generation, stop_event, plan_queue, out, files,
                   main_vars, synth_vars, play_code, hist_vars>>

\* play_queue.get returns None: break.
PlaySentinel ==
    /\ play_pc = "get"
    /\ play_queue # <<>>
    /\ Head(play_queue).kind = "none"
    /\ play_queue' = Tail(play_queue)
    /\ play_pc' = "exited"
    /\ UNCHANGED <<api_vars, parse_vars, reads, active_generation, stop_event, plan_queue, out, files,
                   main_vars, synth_vars, play_item, play_code, hist_vars>>

\* A stale PauseJob: continue.
PlayDropPause ==
    /\ play_pc = "check"
    /\ play_item.kind = "pause"
    /\ Stale(play_item.generation, get_generation)
    /\ checks' = [checks EXCEPT !.play = Append(@, Check(play_item, get_generation))]
    /\ play_pc' = "loop"
    /\ UNCHANGED <<api_vars, parse_vars, reads, active_generation, stop_event, plan_queue, play_queue, out,
                   files, main_vars, synth_vars, play_item, play_code,
                   submitted, cleared_while, rejected>>

\* A pause that runs beside the stage: the stage goes on with its queue at
\* once and no pause_done is emitted by it.
PlayPassPauseDetached ==
    /\ play_pc = "check"
    /\ play_item.kind = "pause"
    /\ ~Stale(play_item.generation, get_generation)
    /\ checks' = [checks EXCEPT !.play = Append(@, Check(play_item, get_generation))]
    /\ play_pc' = "loop"
    /\ UNCHANGED <<api_vars, parse_vars, reads, active_generation, stop_event, plan_queue, play_queue, out,
                   files, main_vars, synth_vars, play_item, play_code,
                   submitted, cleared_while, rejected>>

\* A PauseJob passes the check: time.sleep starts.
PlayPassPause ==
    /\ play_pc = "check"
    /\ play_item.kind = "pause"
    /\ ~Stale(play_item.generation, get_generation)
    /\ checks' = [checks EXCEPT !.play = Append(@, Check(play_item, get_generation))]
    /\ play_pc' = "sleep"
    /\ UNCHANGED <<api_vars, parse_vars, reads, active_generation, stop_event, plan_queue, play_queue, out,
                   files, main_vars, synth_vars, play_item, play_code,
                   submitted, cleared_while, rejected>>

\* time.sleep returns: emit pause_done.
PlayPauseDone ==
    /\ play_pc = "sleep"
    /\ emit(Event("pause_done", play_item.chunk_id, "", play_item.pause_ms))
    /\ play_pc' = "loop"
    /\ UNCHANGED <<api_vars, parse_vars, reads, active_generation, stop_event, plan_queue, play_queue, files,
                   main_vars, synth_vars, play_item, play_code, hist_vars>>

\* A stale SynthResult dropped with its artifact file left in place.
PlayDropResultKeepsFile ==
    /\ play_pc = "check"
    /\ play_item.kind = "result"
    /\ Stale(play_item.job.generation, get_generation)
    /\ checks' = [checks EXCEPT !.play = Append(@, Check(play_item.job, get_generation))]
    /\ play_pc' = "loop"
    /\ UNCHANGED <<api_vars, parse_vars, reads, active_generation, stop_event, plan_queue, play_queue, out,
                   files, main_vars, synth_vars, play_item, play_code, submitted,
                   cleared_while, rejected>>

\* A stale SynthResult: safe_unlink(item.wav_path), continue.
PlayDropResult ==
    /\ play_pc = "check"
    /\ play_item.kind = "result"
    /\ Stale(play_item.job.generation, get_generation)
    /\ checks' = [checks EXCEPT !.play = Append(@, Check(play_item.job, get_generation))]
    /\ files' = safe_unlink(play_item.wav_path)
    /\ play_pc' = "loop"
    /\ UNCHANGED <<api_vars, parse_vars, reads, active_generation, stop_event, plan_queue, play_queue, out,
                   main_vars, synth_vars, play_item, play_code, submitted,
                   cleared_while, rejected>>

\* A player started beside the stage: the stage goes on with its queue while
\* the file plays.
PlayPassResultDetached ==
    /\ play_pc = "check"
    /\ play_item.kind = "result"
    /\ ~Stale(play_item.job.generation, get_generation)
    /\ checks' = [checks EXCEPT !.play = Append(@, Check(play_item.job, get_generation))]
    /\ play_pc' = "loop"
    /\ UNCHANGED <<api_vars, parse_vars, reads, active_generation, stop_event, plan_queue, play_queue, out,
                   files, main_vars, synth_vars, play_item, play_code,
                   submitted, cleared_while, rejected>>

\* A SynthResult passes the check: play_file starts.
PlayPassResult ==
    /\ play_pc = "check"
    /\ play_item.kind = "result"
    /\ ~Stale(play_item.job.generation, get_generation)
    /\ checks' = [checks EXCEPT !.play = Append(@, Check(play_item.job, get_generation))]
    /\ play_pc' = "play"
    /\ UNCHANGED <<api_vars, parse_vars, reads, active_generation, stop_event, plan_queue, play_queue, out,
                   files, main_vars, synth_vars, play_item, play_code,
                   submitted, cleared_while, rejected>>

\* A return from the player that leaves the artifact file in place.
PlayReturnsKeepsFile ==
    /\ play_pc = "play"
    /\ \E code \in ExitCodes : play_code' = code
    /\ play_pc' = "played"
    /\ UNCHANGED <<api_vars, parse_vars, reads, active_generation, stop_event, plan_queue, play_queue, out,
                   files, main_vars, synth_vars, play_item, hist_vars>>

\* play_file returns (code, stderr); safe_unlink(item.wav_path).
PlayReturns ==
    /\ play_pc = "play"
    /\ \E code \in ExitCodes : play_code' = code
    /\ files' = safe_unlink(play_item.wav_path)
    /\ play_pc' = "played"
    /\ UNCHANGED <<api_vars, parse_vars, reads, active_generation, stop_event, plan_queue, play_queue, out,
                   main_vars, synth_vars, play_item, hist_vars>>

\* subprocess.run raises inside play_file: nothing in play_loop catches it and
\* the thread ends.
PlayRaises ==
    /\ play_pc = "play"
    /\ play_pc' = "crashed"
    /\ UNCHANGED <<api_vars, parse_vars, reads, active_generation, stop_event, plan_queue, play_queue, out,
                   files, main_vars, synth_vars, play_item, play_code, hist_vars>>

\* code != 0: the error event, continue.
PlayError ==
    /\ play_pc = "played"
    /\ play_code # 0
    /\ emit(Event("error", play_item.job.chunk_id, "play", 0))
    /\ play_pc' = "loop"
    /\ UNCHANGED <<api_vars, parse_vars, reads, active_generation, stop_event, plan_queue, play_queue, files,
                   main_vars, synth_vars, play_item, play_code, hist_vars>>

\* A playback that re-reads the counter when the player returns and drops
\* the play_done of an item that has become stale.
PlayDonePreemptive ==
    /\ play_pc = "played"
    /\ play_code = 0
    /\ IF Stale(play_item.job.generation, get_generation)
       THEN out' = out
       ELSE emit(Event("play_done", play_item.job.chunk_id, "", play_item.synth_ms))
    /\ play_pc' = "loop"
    /\ UNCHANGED <<api_vars, parse_vars, reads, active_generation, stop_event, plan_queue, play_queue, files,
                   main_vars, synth_vars, play_item, play_code, hist_vars>>

\* code == 0: play_done with the SynthResult's synth_ms.
PlayDone ==
    /\ play_pc = "played"
    /\ play_code = 0
    /\ emit(Event("play_done", play_item.job.chunk_id, "", play_item.synth_ms))
    /\ play_pc' = "loop"
    /\ UNCHANGED <<api_vars, parse_vars, reads, active_generation, stop_event, plan_queue, play_queue, files,
                   main_vars, synth_vars, play_item, play_code, hist_vars>>

Play ==
    \/ PlayStop \/ PlayEnter \/ PlayEmpty \/ PlayGet \/ PlaySentinel
    \/ PlayDropPause \/ PlayPassPause \/ PlayPauseDone \/ PlayDropResult
    \/ PlayPassResult \/ PlayReturns \/ PlayRaises \/ PlayError \/ PlayDone

\* ------------------------------------------------------------------ Spec
\* The pipeline driven by well-formed commands.
Next == Main \/ Synth \/ Play

Spec == Init /\ [][Next]_vars

\* The pipeline driven by well-formed and rejected lines, in shorter runs.
NextInput ==
    \/ Len(submitted) < MaxInputJobs /\ MainSpeak
    \/ Len(submitted) < MaxInputJobs /\ MainPause
    \/ active_generation < MaxInputClears /\ MainClear
    \/ MainRest
    \/ MainRejects
    \/ Synth
    \/ Play

SpecInput == Init /\ [][NextInput]_vars

\* The pipeline driven by commands with and without a generation of their
\* own, in shorter runs.
NextStamped ==
    \/ Len(submitted) < MaxStampedJobs /\ MainSpeak
    \/ Len(submitted) < MaxStampedJobs /\ MainPause
    \/ Len(submitted) < MaxStampedJobs /\ MainSpeakStamped
    \/ Len(submitted) < MaxStampedJobs /\ MainPauseStamped
    \/ MainClear
    \/ MainRest
    \/ Synth
    \/ Play

SpecStamped == Init /\ [][NextStamped]_vars

\* The process from the entry of main, in shorter runs.
NextStartup ==
    \/ MainStartup
    \/ Len(submitted) < MaxStartupJobs /\ MainSpeak
    \/ Len(submitted) < MaxStartupJobs /\ MainPause
    \/ active_generation < MaxStartupClears /\ MainClear
    \/ MainRest
    \/ MainBadLine
    \/ Synth
    \/ Play

SpecStartup == InitStartup /\ [][NextStartup]_vars

\* The pipeline with both stage threads scheduled again and again and every
\* collaborator call and sleep returning: a stage that can take a step
\* eventually takes one, unless the process exits first.
NextLive ==
    \/ Len(submitted) < MaxLiveJobs /\ MainSpeak
    \/ Len(submitted) < MaxLiveJobs /\ MainPause
    \/ active_generation < MaxLiveClears /\ MainClear
    \/ MainRest
    \/ Synth
    \/ Play

SpecLive == Init /\ [][NextLive]_vars /\ WF_vars(Synth) /\ WF_vars(Play)

\* ------------------------------------------------------------------ output
\* Positions in the output stream of the events of one type for one id.
Pos(type, id) == {i \in 1..Len(out) : out[i].type = type /\ out[i].id = id}

\* Positions of the error events of one stage for one id.
ErrPos(stage, id) ==
    {i \in 1..Len(out) :
        out[i].type = "error" /\ out[i].stage = stage /\ out[i].id = id}

\* The jobs submitted so far and their identifiers.
Jobs == {submitted[k].job : k \in 1..Len(submitted)}
SpeakIds == {j.chunk_id : j \in {x \in Jobs : x.kind = "speak"}}

\* Identifiers of what is on the play queue, and of what the Playback Stage
\* has ever taken from it.
QueuedForPlay ==
    {ItemJob(play_queue[i]).chunk_id :
        i \in {k \in 1..Len(play_queue) : play_queue[k].kind # "none"}}

TakenForPlay ==
    IF play_item.kind = "none" THEN {} ELSE {ItemJob(play_item).chunk_id}

\* The generation checks of a stage that an id passed, and those it failed.
Passed(stage, id) ==
    \E i \in 1..Len(checks[stage]) :
        checks[stage][i].id = id /\ checks[stage][i].seen = checks[stage][i].generation

FoundStale(stage, id) ==
    \E i \in 1..Len(checks[stage]) :
        checks[stage][i].id = id /\ checks[stage][i].seen # checks[stage][i].generation

\* ------------------------------------------------------------------ C1
\* C1: a speak job that was on the plan queue when a clear raised the counter
\* above its generation never gets a synth_done, a play_done or an error
\* event, and nothing is ever pushed onto the play queue for it.
C1_CancelledWhilePlannedIsSilent ==
    \A id \in cleared_while.planned :
        /\ Pos("synth_done", id) = {}
        /\ Pos("play_done", id) = {}
        /\ ErrPos("synth", id) = {}
        /\ ErrPos("play", id) = {}
        /\ id \notin QueuedForPlay
        /\ id \notin TakenForPlay

\* A cancelled job that the Synthesis Stage has since dequeued and dropped.
C1_Witness ==
    \E id \in cleared_while.planned : FoundStale("synth", id)

\* ------------------------------------------------------------------ C2
\* C2: an item the Playback Stage holds past its generation check when a clear
\* fires is not stopped by it: once the stage is done with the item, a pause
\* has its pause_done, and a SynthResult has its play_done if the player
\* returned 0 (its play error otherwise).
HeldByPlay(id) ==
    play_item.kind # "none" /\ ItemJob(play_item).chunk_id = id

C2_ClearDoesNotStopPlayback ==
    \A id \in cleared_while.playing :
        IF HeldByPlay(id)
        THEN \/ play_pc \in {"sleep", "play", "played", "crashed", "killed"}
             \/ /\ play_item.kind = "pause"
                /\ Pos("pause_done", id) # {}
             \/ /\ play_item.kind = "result"
                /\ IF play_code = 0
                   THEN Pos("play_done", id) # {}
                   ELSE ErrPos("play", id) # {}
        ELSE \/ Pos("pause_done", id) # {}
             \/ Pos("play_done", id) # {}
             \/ ErrPos("play", id) # {}

\* A speak job that a clear found in playback and that has its play_done,
\* though the counter is now above its generation.
C2_Witness ==
    \E id \in cleared_while.playing :
        /\ id \in SpeakIds
        /\ Pos("play_done", id) # {}
        /\ \E j \in Jobs : j.chunk_id = id /\ j.generation < active_generation

\* ------------------------------------------------------------------ C3
SynthOk(id) == Pos("synth_done", id) # {}
SynthErr(id) == ErrPos("synth", id) # {}
PlayOk(id) == Pos("play_done", id) # {}
PlayErr(id) == ErrPos("play", id) # {}

\* Exactly one outcome: synth_done and then one of play_done, error{play};
\* or else error{synth}.
ExactlyOneOutcome(id) ==
    \/ /\ Cardinality(Pos("synth_done", id)) = 1
       /\ Cardinality(Pos("play_done", id)) + Cardinality(ErrPos("play", id)) = 1
       /\ ~SynthErr(id)
    \/ /\ Cardinality(ErrPos("synth", id)) = 1
       /\ ~SynthOk(id) /\ ~PlayOk(id) /\ ~PlayErr(id)

\* The speak jobs no clear has overtaken.
CurrentSpeakIds ==
    {j.chunk_id : j \in {x \in Jobs :
        x.kind = "speak" /\ x.generation = active_generation}}

PlannedIds ==
    {plan_queue[i].chunk_id :
        i \in {k \in 1..Len(plan_queue) : plan_queue[k].kind # "none"}}

\* A job is settled when it is in no queue and in no stage's hands.
Settled(id) ==
    /\ id \notin PlannedIds
    /\ id \notin QueuedForPlay
    /\ ~(synth_pc \in {"check", "forward", "synth", "put", "except"}
         /\ synth_job.chunk_id = id)
    /\ ~(play_pc \in {"check", "sleep", "play", "played"} /\ HeldByPlay(id))

Idx(id) == CHOOSE k \in 1..Len(submitted) : submitted[k].job.chunk_id = id

IsAck(e) == e.type = "ack"
IsSynthEvent(e) ==
    e.type = "synth_done" \/ (e.type = "error" /\ e.stage = "synth")
IsPlayEvent(e) ==
    e.type \in {"play_done", "pause_done"} \/ (e.type = "error" /\ e.stage = "play")
IsTerminal(e) == IsSynthEvent(e) \/ IsPlayEvent(e)

AcksInOrder ==
    \A p, q \in 1..Len(out) :
        (p < q /\ IsAck(out[p]) /\ IsAck(out[q])) => Idx(out[p].id) < Idx(out[q].id)

\* C4 as stated: acks in submission order and, for jobs x before y of one
\* generation, no terminal event of y before a terminal event of x.
C4_TerminalEventsInSubmissionOrder ==
    /\ AcksInOrder
    /\ \A x, y \in 1..Len(submitted) :
          (x < y /\ submitted[x].job.generation = submitted[y].job.generation)
          => \A p \in 1..Len(out) :
                (IsTerminal(out[p]) /\ out[p].id = submitted[y].job.chunk_id)
                => \E q \in 1..(p - 1) :
                      IsTerminal(out[q]) /\ out[q].id = submitted[x].job.chunk_id

\* C4 (amended): acks are in submission order, the events of the Synthesis
\* Stage (synth_done, error{synth}) are in submission order, and the events
\* of the Playback Stage (play_done, pause_done, error{play}) are in
\* submission order; events of different stages may interleave.
C4_OrderPerStage ==
    /\ AcksInOrder
    /\ \A p, q \in 1..Len(out) :
          /\ (p < q /\ IsSynthEvent(out[p]) /\ IsSynthEvent(out[q]))
                => Idx(out[p].id) < Idx(out[q].id)
          /\ (p < q /\ IsPlayEvent(out[p]) /\ IsPlayEvent(out[q]))
                => Idx(out[p].id) < Idx(out[q].id)

\* Two jobs of one generation, both played or paused, in order, with the
\* later job's synth_done ahead of the earlier job's playback event.
C4_Witness ==
    \E p, q, r \in 1..Len(out) :
        /\ p < q /\ q < r
        /\ IsSynthEvent(out[p]) /\ IsPlayEvent(out[q]) /\ IsPlayEvent(out[r])
        /\ out[p].id = out[r].id
        /\ Idx(out[q].id) < Idx(out[r].id)
        /\ submitted[Idx(out[q].id)].job.generation
              = submitted[Idx(out[r].id)].job.generation

\* ------------------------------------------------------------------ C5
\* C5: the ack of an id comes before every other event of that id.
C5_AckBeforeOtherEvents ==
    \A p \in 1..Len(out) :
        (out[p].id # <<>> /\ ~IsAck(out[p]))
        => \E q \in 1..(p - 1) : IsAck(out[q]) /\ out[q].id = out[p].id

\* ------------------------------------------------------------------ C6
\* Every event of T is preceded by an event of S.
Before(S, T) == \A t \in T : \E s \in S : s < t

\* The scenario of C6: the first two commands are speak commands a and b, no
\* clear was sent and no collaborator has failed.
TwoSpeaks ==
    /\ Len(submitted) >= 2
    /\ submitted[1].job.kind = "speak"
    /\ submitted[2].job.kind = "speak"
    /\ active_generation = 0
    /\ \A p \in 1..Len(out) : out[p].type # "error"

IdA == submitted[1].job.chunk_id
IdB == submitted[2].job.chunk_id

AllSixEmitted ==
    /\ Pos("ack", IdA) # {} /\ Pos("ack", IdB) # {}
    /\ SynthOk(IdA) /\ SynthOk(IdB)
    /\ PlayOk(IdA) /\ PlayOk(IdB)

\* C6 as stated, for the runs in which each ack came before the other events
\* of its id: once all six events are out they are in the order ack a, ack b,
\* synth_done a, play_done a, synth_done b, play_done b.
C6_TotalOrder ==
    (TwoSpeaks /\ AllSixEmitted /\ C5_AckBeforeOtherEvents)
    => /\ Before(Pos("ack", IdA), Pos("ack", IdB))
       /\ Before(Pos("ack", IdB), Pos("synth_done", IdA))
       /\ Before(Pos("synth_done", IdA), Pos("play_done", IdA))
       /\ Before(Pos("play_done", IdA), Pos("synth_done", IdB))
       /\ Before(Pos("synth_done", IdB), Pos("play_done", IdB))

\* C6 (amended): ack a precedes ack b and synth_done b; synth_done a precedes
\* synth_done b; play_done a precedes play_done b; synth_done of a job
\* precedes its play_done.  synth_done a may precede ack b, and synth_done b
\* may precede play_done a.
C6_PartialOrder ==
    TwoSpeaks
    => /\ Before(Pos("ack", IdA), Pos("ack", IdB))
       /\ Before(Pos("ack", IdA), Pos("synth_done", IdB))
       /\ Before(Pos("synth_done", IdA), Pos("synth_done", IdB))
       /\ Before(Pos("play_done", IdA), Pos("play_done", IdB))
       /\ Before(Pos("synth_done", IdA), Pos("play_done", IdA))
       /\ Before(Pos("synth_done", IdB), Pos("play_done", IdB))

\* All six events out, with synth_done b ahead of play_done a.
C6_Witness ==
    /\ TwoSpeaks
    /\ AllSixEmitted
    /\ \E p \in Pos("synth_done", IdB) : \E q \in Pos("play_done", IdA) : p < q

\* ------------------------------------------------------------------ C7
IsCleared(e) == e.type = "cleared"
Cleared == SelectSeq(out, IsCleared)

\* C7: the k-th clear raises the counter from k-1 to k and its cleared event
\* carries k.
C7_ClearedCarriesNewCounter ==
    /\ \A k \in 1..Len(Cleared) : Cleared[k].n = k
    /\ Len(Cleared) =
          IF main_pc = "cleared" THEN active_generation - 1 ELSE active_generation
    /\ main_pc = "cleared" => new_generation = active_generation

\* Two clears handled, the second cleared event out.
C7_Witness == Len(Cleared) >= 2 /\ Cleared[2].n = 2

\* ------------------------------------------------------------------ C8
\* C8: the counter starts at 0, never decreases, and changes only in the
\* clear handler's bump: no step of a stage and no other step of the decoder
\* changes it.
C8_CounterChangesOnlyInClear ==
    /\ active_generation = 0
    /\ [][active_generation' # active_generation
            => (MainClear /\ active_generation' > active_generation)]_vars

\* The counter raised twice, both stages having checked items, and the
\* shutdown handled.
C8_Witness ==
    /\ active_generation >= 2
    /\ stop_event
    /\ Len(checks.synth) > 0
    /\ Len(checks.play) > 0

\* ------------------------------------------------------------------ C9
\* C9: a stage works on an item (holds it past the check, forwards it, emits
\* an event for it) only if the counter value it read after dequeuing it
\* equalled the item's generation; each stage checks an item once, and an item
\* found stale is not processed afterwards.
C9_WorkOnlyAfterPassingCheck ==
    /\ synth_pc \in {"forward", "synth", "put", "except"}
          => Passed("synth", synth_job.chunk_id)
    /\ play_pc \in {"sleep", "play", "played"}
          => Passed("play", ItemJob(play_item).chunk_id)
    /\ \A id \in QueuedForPlay : Passed("synth", id)
    /\ \A p \in 1..Len(out) :
          /\ IsSynthEvent(out[p]) => Passed("synth", out[p].id)
          /\ IsPlayEvent(out[p]) => Passed("play", out[p].id)
    /\ \A stage \in {"synth", "play"} :
          \A i, j \in 1..Len(checks[stage]) :
              i # j => checks[stage][i].id # checks[stage][j].id
    /\ \A id \in {j.chunk_id : j \in Jobs} :
          /\ FoundStale("synth", id)
                => /\ \A p \in 1..Len(out) : out[p].id = id => IsAck(out[p])
                   /\ id \notin QueuedForPlay
          /\ FoundStale("play", id)
                => \A p \in 1..Len(out) : out[p].id = id => ~IsPlayEvent(out[p])

\* A speak job that passed the Synthesis Stage's check and was found stale
\* by the Playback Stage, and a job found stale by the Synthesis Stage.
C9_Witness ==
    /\ \E id \in SpeakIds :
          Passed("synth", id) /\ SynthOk(id) /\ FoundStale("play", id)
    /\ \E j \in Jobs : FoundStale("synth", j.chunk_id)

\* ------------------------------------------------------------------ C10
\* The jobs in a queue or in a stage's hands.
HeldJobs ==
    {plan_queue[i] : i \in {k \in 1..Len(plan_queue) : plan_queue[k].kind # "none"}}
    \cup {ItemJob(play_queue[i]) :
            i \in {k \in 1..Len(play_queue) : play_queue[k].kind # "none"}}
    \cup (IF synth_job.kind = "none" THEN {} ELSE {synth_job})
    \cup (IF play_item.kind = "none" THEN {} ELSE {ItemJob(play_item)})

Record(id) == submitted[Idx(id)]

C11_ClearTouchesOnlyCounterAndOutput ==
    [][(MainClear \/ MainCleared)
          => /\ plan_queue' = plan_queue
             /\ play_queue' = play_queue
             /\ synth_vars' = synth_vars
             /\ play_vars' = play_vars
             /\ files' = files
             /\ stop_event' = stop_event
             /\ MainClear
                  => active_generation' = active_generation + 1 /\ out' = out
             /\ MainCleared
                  => /\ active_generation' = active_generation
                     /\ out' = Append(out, Event("cleared", <<>>, "",
                                                 active_generation))]_vars

\* A clear handled with a job on each queue, the cleared event not yet out.
C11_Witness ==
    /\ main_pc = "cleared"
    /\ PlannedIds # {}
    /\ QueuedForPlay # {}

\* ------------------------------------------------------------------ C12
\* The Synthesis Stage is working on the job: the collaborator call is in
\* progress (or was when the process exited) or its failure is being handled.
InSynthesis(id) ==
    synth_pc \in {"synth", "except", "killed"} /\ synth_job.chunk_id = id

\* C12: a speak job on which the synthesis collaborator failed has exactly
\* one error{synth} event once the stage has handled the failure, no
\* synth_done, nothing on the play queue or in the Playback Stage, no
\* playback event, and its artifact file is gone; and a job that passed the
\* stage's check and that the stage has left without a synth_done has that
\* error event.
C12_SynthFailureEndsTheJob ==
    \A id \in SpeakIds :
        /\ (synth_pc = "except" /\ synth_job.chunk_id = id)
              => /\ ~SynthOk(id) /\ ~SynthErr(id)
                 /\ id \notin QueuedForPlay /\ id \notin TakenForPlay
        /\ SynthErr(id)
              => /\ Cardinality(ErrPos("synth", id)) = 1
                 /\ ~SynthOk(id) /\ ~PlayOk(id) /\ ~PlayErr(id)
                 /\ id \notin QueuedForPlay /\ id \notin TakenForPlay
                 /\ id \notin files
        /\ (Passed("synth", id) /\ ~SynthOk(id) /\ ~InSynthesis(id))
              => SynthErr(id)

\* A job whose synthesis failed after its artifact file was created: the
\* error event is out and the file is gone.
C12_Witness ==
    \E id \in SpeakIds :
        /\ SynthErr(id)
        /\ synth_job.chunk_id = id /\ synth_wav = id
        /\ id \notin files

\* ------------------------------------------------------------------ C13
\* The Playback Stage is past the player call on the item and has not yet
\* emitted its event.
PlayerReturned(id) == play_pc = "played" /\ HeldByPlay(id)

\* The Playback Stage has taken up its loop again, or left it, after the item.
PlayLeft(id) == play_pc \in {"loop", "get", "exited"} /\ HeldByPlay(id)

\* C13: when the player returns a non-zero code for a SynthResult, the
\* artifact file is gone before the error event is emitted, the stage emits
\* exactly one error{play} for the job and no play_done.
C13_PlayFailureReported ==
    \A id \in SpeakIds :
        /\ (PlayerReturned(id) /\ play_code # 0)
              => id \notin files /\ ~PlayErr(id) /\ ~PlayOk(id)
        /\ PlayErr(id)
              => /\ Cardinality(ErrPos("play", id)) = 1
                 /\ ~PlayOk(id)
                 /\ id \notin files
        /\ (PlayLeft(id) /\ Passed("play", id) /\ play_code # 0)
              => PlayErr(id)

\* A job synthesized and played with a non-zero exit code: its error{play}
\* is out and its file is gone.
C13_Witness ==
    \E id \in SpeakIds :
        /\ PlayLeft(id) /\ play_code # 0
        /\ SynthOk(id) /\ PlayErr(id)
        /\ id \notin files

\* ------------------------------------------------------------------ C14
\* C14: no failure of a collaborator on one job ends a stage's loop: a stage
\* is never stopped by an exception.
C14_FailureNeverHaltsAStage ==
    synth_pc # "crashed" /\ play_pc # "crashed"

\* ------------------------------------------------------------------ C15
\* C15: once both stages have left their loops by the loop test or by the
\* sentinel, no artifact file the Synthesis Stage created still exists.
C15_NoArtifactAfterExit ==
    (synth_pc = "exited" /\ play_pc = "exited") => files = {}

\* ------------------------------------------------------------------ C16
\* The input-stage error events.
InputErrors ==
    {i \in 1..Len(out) : out[i].type = "error" /\ out[i].stage = "input"}

\* C16: the step in which the decoder rejects a line emits one input-stage
\* error without an id, leaves both queues, the counter and the termination
\* signal alone, and the decoder is back at reading the next line.
C16_RejectedLinesAreNotFatal ==
    [][rejected' # rejected
          => /\ out' = Append(out, Event("error", <<>>, "input", 0))
             /\ plan_queue' = plan_queue
             /\ play_queue' = play_queue
             /\ active_generation' = active_generation
             /\ stop_event' = stop_event
             /\ main_pc' = "read"]_vars

\* ------------------------------------------------------------------ C17
\* The Synthesis Stage has taken the job off the plan queue.
Dequeued(id) ==
    \/ synth_job.kind # "none" /\ synth_job.chunk_id = id
    \/ \E i \in 1..Len(checks.synth) : checks.synth[i].id = id

\* How often the id is on the plan queue.
TimesPlanned(id) ==
    Cardinality({i \in 1..Len(plan_queue) :
        plan_queue[i].kind # "none" /\ plan_queue[i].chunk_id = id})

\* The rejected lines that were speak or pause commands.
RejectedCommands ==
    {rejected[i] : i \in {k \in 1..Len(rejected) :
        rejected[k].op \in {"speak", "pause"}}}

DecoderStopped == main_pc \in {"put", "join", "done", "raised"}

\* The stage has left its loop, or the process exited while the stage was
\* inside a collaborator call or a sleep.
StageOut(pc) == pc \in {"exited", "crashed", "killed"}

\* C18: the decoder stops reading with the termination signal set, its next
\* step pushes one sentinel onto each queue, and from then on both stages
\* eventually leave their loops, whatever the queues hold.
C18_StagesLeaveTheirLoops ==
    /\ [](DecoderStopped => stop_event)
    /\ [][main_pc = "put" /\ main_pc' # "put"
            => /\ plan_queue' = Append(plan_queue, None)
               /\ play_queue' = Append(play_queue, None)]_vars
    /\ DecoderStopped ~> (StageOut(synth_pc) /\ StageOut(play_pc))

\* Both stages out of their loops by themselves after a shutdown that found
\* a job on each queue.
C18_Witness ==
    /\ DecoderStopped
    /\ synth_pc = "exited" /\ play_pc = "exited"
    /\ PlannedIds # {}
    /\ QueuedForPlay # {}

\* ------------------------------------------------------------------ C19
ReadyPos == {i \in 1..Len(out) : out[i].type = "ready"}
FatalPos == {i \in 1..Len(out) : out[i].type = "fatal"}

\* main is past its startup code.
StartupOver == main_pc \notin {"start", "start_play", "ready"}

\* No input line has been handled.
NothingProcessed ==
    /\ submitted = <<>> /\ rejected = <<>>
    /\ active_generation = 0
    /\ plan_queue = <<>> /\ play_queue = <<>>
    /\ ~stop_event

\* C19: once startup is over there is either one ready event, the first
\* event of the run, emitted with both workers started and before any input
\* line was handled, and no fatal event; or one fatal event and nothing else,
\* no worker started, no line handled and exit status 1.
C19_ReadyOrFatal ==
    /\ Cardinality(ReadyPos) + Cardinality(FatalPos) = IF StartupOver THEN 1 ELSE 0
    /\ ~StartupOver => NothingProcessed
    /\ ReadyPos # {}
          => /\ ReadyPos = {1}
             /\ synth_pc # "unstarted" /\ play_pc # "unstarted"
             /\ main_pc # "failed"
    /\ FatalPos # {}
          => /\ out = <<Event("fatal", <<>>, "", 0)>>
             /\ synth_pc = "unstarted" /\ play_pc = "unstarted"
             /\ NothingProcessed
             /\ ExitStatus = 1

\* A run that became ready, handled a job and a clear and ended with
\* status 0.
C19_Witness ==
    /\ ReadyPos = {1}
    /\ submitted # <<>> /\ active_generation > 0
    /\ ExitStatus = 0

\* ------------------------------------------------------------------ C20
\* C20: with the three threads calling emit concurrently, the writes on
\* stdout are whole records one after the other: every record's text is
\* followed at once by its own line end, and a text without its line end is
\* the last write, made by the thread that is about to write the line end.
C20_RecordsAreWhole ==
    /\ \A i \in 1..Len(out) :
          IF i % 2 = 1 THEN out[i] # Newline ELSE out[i] = Newline
    /\ Len(out) % 2 = 1
          => \E t \in Threads :
                PcOf(t) = "newline" /\ out[Len(out)] = Payload(t)
    /\ Cardinality(LockHolders) <= 1

\* One thread between the two writes of its record while the other two
\* wait for the lock.
C20_Witness ==
    /\ PcOf("synth") = "newline"
    /\ PcOf("main") = "emit"
    /\ PcOf("play") = "emit"
    /\ out[Len(out)] = Payload("synth")

\* ------------------------------------------------------------------ agent_api: policy
\* Python strings of the agent_api tool are sequences of characters, a str
\* value is tagged; None is the None above.
Str(s) == [t |-> "str", s |-> s]
Num(n) == [t |-> "num", n |-> n]
Bool(b) == [t |-> "bool", b |-> b]
List(items) == [t |-> "list", items |-> items]
Dict(fields) == [t |-> "dict", fields |-> fields]
Field(key, value) == [key |-> key, value |-> value]
Type(value) == IF value = None THEN "none" ELSE value.t

LowerCase == <<"a", "b", "c", "d", "e", "f", "g", "h", "i", "j", "k", "l", "m",
               "n", "o", "p", "q", "r", "s", "t", "u", "v", "w", "x", "y", "z">>
UpperCase == <<"A", "B", "C", "D", "E", "F", "G", "H", "I", "J", "K", "L", "M",
               "N", "O", "P", "Q", "R", "S", "T", "U", "V", "W", "X", "Y", "Z">>

\* A method compared as it is written.
UpperIdentity(s) == s

\* str.upper()
Upper(s) ==
    [i \in 1..Len(s) |->
        IF \E k \in 1..Len(LowerCase) : LowerCase[k] = s[i]
        THEN UpperCase[CHOOSE k \in 1..Len(LowerCase) : LowerCase[k] = s[i]]
        ELSE s[i]]

\* needle in s
Contains(s, needle) ==
    \E i \in 0..(Len(s) - Len(needle)) : SubSeq(s, i + 1, i + Len(needle)) = needle

GET == <<"G", "E", "T">>
HEAD == <<"H", "E", "A", "D">>
OPTIONS == <<"O", "P", "T", "I", "O", "N", "S">>
POST == <<"P", "O", "S", "T">>
PUT == <<"P", "U", "T">>
PATCH == <<"P", "A", "T", "C", "H">>
DELETE == <<"D", "E", "L", "E", "T", "E">>

READ_METHODS == {GET, HEAD, OPTIONS}
WRITE_METHODS == {POST, PUT, PATCH}
ALL_SUPPORTED_METHODS == READ_METHODS \cup WRITE_METHODS \cup {DELETE}
MARKER == <<"[", "a", "g", "e", "n", "t", "-", "t", "e", "s", "t", "]">>

Accepted == "accepted"

\* The strings at the top of a value only: nothing nested is looked at.
IterTopLevelStrings(value) ==
    IF Type(value) = "str" THEN <<value.s>>
    ELSE IF Type(value) = "dict"
         THEN LET top == SelectSeq(value.fields, LAMBDA f : Type(f.value) = "str")
              IN  [i \in 1..Len(top) |-> top[i].value.s]
    ELSE <<>>

RECURSIVE iter_string_values(_), IterAll(_)
\* yield from _iter_string_values(nested) for each nested value, in order.
IterAll(values) ==
    IF values = <<>> THEN <<>>
    ELSE iter_string_values(Head(values)) \o IterAll(Tail(values))

\* list(_iter_string_values(value))
iter_string_values(value) ==
    IF Type(value) = "str" THEN <<value.s>>
    ELSE IF Type(value) = "dict"
         THEN IterAll([i \in 1..Len(value.fields) |-> value.fields[i].value])
    ELSE IF Type(value) = "list" THEN IterAll(value.items)
    ELSE <<>>

\* The read-only branch.
ReadOnlyPolicy(normalized_method) ==
    IF normalized_method \notin READ_METHODS
    THEN "ERR_METHOD_BLOCKED_BY_MODE"
    ELSE Accepted

\* The safe-updates branch.
SafeUpdatesPolicy(normalized_method, json_body) ==
    IF normalized_method = DELETE THEN "ERR_METHOD_BLOCKED_BY_MODE"
    ELSE IF normalized_method \in WRITE_METHODS
         THEN IF json_body = None THEN "ERR_MARKER_MISSING"
              ELSE LET strings == iter_string_values(json_body)
                   IN  IF strings = <<>> THEN "ERR_UNMARKABLE_PAYLOAD"
                       ELSE IF \E i \in 1..Len(strings) : ~Contains(strings[i], MARKER)
                            THEN "ERR_MARKER_MISSING"
                            ELSE Accepted
    ELSE Accepted

\* A full-access branch that lets every supported method through.
FullAccessUnconfirmed(normalized_method, confirm_delete) == Accepted

\* The full-access branch.
FullAccessPolicy(normalized_method, confirm_delete) ==
    IF normalized_method = DELETE /\ ~confirm_delete
    THEN "ERR_DELETE_CONFIRMATION_REQUIRED"
    ELSE Accepted

\* validate_policy: "accepted" for a return, the error code for a raise.
validate_policy(api_mode, method, json_body, confirm_delete) ==
    LET normalized_method == Upper(method)
    IN  IF normalized_method \notin ALL_SUPPORTED_METHODS
        THEN "ERR_METHOD_BLOCKED_BY_MODE"
        ELSE IF api_mode = "read-only" THEN ReadOnlyPolicy(normalized_method)
        ELSE IF api_mode = "safe-updates"
             THEN SafeUpdatesPolicy(normalized_method, json_body)
        ELSE IF api_mode = "full-access"
             THEN FullAccessPolicy(normalized_method, confirm_delete)
        ELSE "ERR_CONTEXT_INVALID"

\* The calls checked: the three modes of config.py and one that is none of
\* them, methods in several spellings, and bodies with strings at several
\* depths.
ApiModes == {"read-only", "safe-updates", "full-access", "staging"}

Methods ==
    {GET, <<"g", "e", "t">>, <<"G", "e", "t">>, HEAD, <<"h", "e", "a", "d">>,
     OPTIONS, <<"o", "p", "t", "i", "o", "n", "s">>,
     POST, <<"p", "o", "s", "t">>, PUT, <<"p", "u", "t">>,
     PATCH, <<"P", "a", "t", "c", "h">>,
     DELETE, <<"d", "e", "l", "e", "t", "e">>, <<"D", "e", "l", "e", "t", "e">>,
     <<"T", "R", "A", "C", "E">>, <<" ", "G", "E", "T">>, <<>>}

Marked == Str(<<"W", " ">> \o MARKER)
Unmarked == Str(<<"d", "e", "s", "c">>)
NearMiss == Str(<<"[", "A", "G", "E", "N", "T", "-", "T", "E", "S", "T", "]">>)

Bodies ==
    {None,
     Num(1),
     Bool(TRUE),
     Str(<<>>),
     Marked,
     Unmarked,
     Dict(<<>>),
     List(<<>>),
     Dict(<<Field("count", Num(1))>>),
     Dict(<<Field("note", None)>>),
     Dict(<<Field("name", Marked)>>),
     Dict(<<Field("name", NearMiss)>>),
     Dict(<<Field("name", Marked), Field("metadata", Dict(<<Field("description", Marked)>>))>>),
     Dict(<<Field("name", Marked), Field("metadata", Dict(<<Field("description", Unmarked)>>))>>),
     Dict(<<Field("count", Num(1)), Field("tags", List(<<List(<<Unmarked>>)>>))>>),
     List(<<Num(1), List(<<Dict(<<Field("name", Marked)>>)>>)>>),
     List(<<Marked, Dict(<<Field("tags", List(<<Marked, Unmarked>>))>>)>>)}

Requests ==
    [api_mode : ApiModes, method : Methods, json_body : Bodies,
     confirm_delete : BOOLEAN]

worker_vars ==
    <<parse_vars, reads, active_generation, stop_event, plan_queue, play_queue, out, files,
      main_vars, synth_vars, play_vars, hist_vars>>

\* The worker is not running.
WorkerUnused ==
    /\ active_generation = 0
    /\ stop_event = FALSE
    /\ plan_queue = <<>>
    /\ play_queue = <<>>
    /\ out = <<>>
    /\ files = {}
    /\ main_pc = "unstarted"
    /\ main_job = None
    /\ new_generation = 0
    /\ main_exc = FALSE
    /\ synth_pc = "unstarted"
    /\ synth_job = None
    /\ synth_wav = <<>>
    /\ synth_ms = 0
    /\ play_pc = "unstarted"
    /\ play_item = None
    /\ play_code = 0
    /\ submitted = <<>>
    /\ checks = [synth |-> <<>>, play |-> <<>>]
    /\ cleared_while = [planned |-> {}, playing |-> {}]
    /\ rejected = <<>>

\* A call of validate_policy is about to be made with some arguments.
InitPolicy ==
    /\ WorkerUnused
    /\ request \in Requests
    /\ verdict = ""
    /\ config = [default_token |-> <<>>, tokens |-> <<>>]
    /\ session_file = None
    /\ context = NoContext
    /\ CallUnused
    /\ ParseUnused
    /\ NoReads

\* The call: it returns or raises.
ValidatePolicy ==
    /\ verdict = ""
    /\ verdict' = validate_policy(request.api_mode, request.method,
                                  request.json_body, request.confirm_delete)
    /\ UNCHANGED <<worker_vars, toml, call, http, request, config, session_file, context>>

NextPolicy == ValidatePolicy

SpecPolicy == InitPolicy /\ [][NextPolicy]_vars

\* ------------------------------------------------------------------ agent_api: token selection
\* Token names: the two of the test configuration (dev_superuser, dev_user),
\* one that no configuration defines, the empty name, a blank one and one
\* with a leading blank.
TokenNames == {<<"s">>, <<"u">>, <<"x">>, <<>>, <<SP>>, <<SP, "u">>}

\* What load_config returns, as far as token selection reads it.
Configs ==
    {[default_token |-> <<"s">>,
      tokens |-> [n \in {<<"s">>, <<"u">>} |->
                    IF n = <<"s">> THEN "token-a" ELSE "token-b"]],
     [default_token |-> <<"u">>,
      tokens |-> [n \in {<<"s">>, <<"u">>} |->
                    IF n = <<"s">> THEN "token-a" ELSE "token-b"]],
     [default_token |-> <<"s">>,
      tokens |-> [n \in {<<"s">>} |-> "token-a"]]}

\* Python truth of a str | None value.
Truthy(value) == value # None /\ value.s # <<>>

\* get_session_token_name: the file is absent, or holds what json.dumps wrote.
get_session_token_name(file) ==
    IF file = None THEN None
    ELSE LET found == SelectSeq(file.fields, LAMBDA f : f.key = "token_name")
             token_name == IF found = <<>> THEN None ELSE found[1].value
         IN  IF Type(token_name) = "str" /\ Strip(token_name.s) # <<>>
             THEN token_name
             ELSE None

\* _resolve_token_name
resolve_token_name(cfg, session_token_name, override_token_name) ==
    IF Truthy(override_token_name) THEN override_token_name.s
    ELSE IF Truthy(session_token_name) /\ session_token_name.s \in DOMAIN cfg.tokens
         THEN session_token_name.s
    ELSE cfg.default_token

\* load_runtime_context: the RuntimeContext, or the error raised.
load_runtime_context(cfg, file, override_token_name) ==
    LET token_name ==
            resolve_token_name(cfg, get_session_token_name(file), override_token_name)
    IN  IF token_name \notin DOMAIN cfg.tokens
        THEN [override_token_name |-> override_token_name, session_file |-> file,
              code |-> "ERR_TOKEN_NOT_FOUND", token_name |-> <<>>, token_value |-> ""]
        ELSE [override_token_name |-> override_token_name, session_file |-> file,
              code |-> "ok", token_name |-> token_name,
              token_value |-> cfg.tokens[token_name]]

\* A configuration file exists, no session file yet.
InitToken ==
    /\ WorkerUnused
    /\ request = [api_mode |-> "", method |-> <<>>, json_body |-> None,
                  confirm_delete |-> FALSE]
    /\ verdict = ""
    /\ config \in Configs
    /\ session_file = None
    /\ context = NoContext
    /\ CallUnused
    /\ ParseUnused
    /\ NoReads

\* set_session_token_name(config_dir, token_name): raises on a blank name,
\* else writes the session file.
SetSessionTokenName ==
    \E token_name \in TokenNames :
        /\ session_file' =
              IF Strip(token_name) = <<>> THEN session_file
              ELSE Dict(<<Field("token_name", Str(token_name))>>)
        /\ UNCHANGED <<worker_vars, toml, call, http, request, verdict, config, context>>

\* load_runtime_context(config_path, override_token_name=...)
LoadRuntimeContext ==
    \E override_token_name \in {None} \cup {Str(n) : n \in TokenNames} :
        /\ context' = load_runtime_context(config, session_file, override_token_name)
        /\ UNCHANGED <<worker_vars, toml, call, http, request, verdict, config, session_file>>

NextToken == SetSessionTokenName \/ LoadRuntimeContext

SpecToken == InitToken /\ [][NextToken]_vars

\* ------------------------------------------------------------------ parsing alone
\* parse_speak and parse_pause on command objects whose numeric fields take
\* every kind of value.
SpeedFields ==
    {Absent, Malformed, IntField(-1), IntField(0), IntField(2), FloatField(-5),
     FloatField(0), FloatField(15), NumStr(2), FloatStr(-15), BoolField(0),
     BoolField(1), NaNField}

PauseMsFields ==
    {Absent, Malformed, IntField(-1), IntField(0), IntField(350), FloatField(-5),
     FloatField(-15), FloatField(25), NumStr(-7), NumStr(40), FloatStr(25),
     BoolField(1), NaNField, InfField}

ParseIds == {<<>>, <<IdChars[1]>>}

ParseCommands ==
    [op : {"speak"}, id : ParseIds, text : {<<TextChar>>}, speed : SpeedFields,
     generation : {Absent, IntField(1)}]
    \cup [op : {"pause"}, id : ParseIds, pause_ms : PauseMsFields,
          generation : {Absent, IntField(1)}]

Raised == [kind |-> "raised"]

\* A command object is about to be parsed.
InitParse ==
    /\ WorkerUnused
    /\ ApiUnused
    /\ command \in ParseCommands
    /\ parsed = NotParsed
    /\ NoReads

\* job = parse_speak(obj)
ParseSpeak ==
    /\ parsed = NotParsed
    /\ command.op = "speak"
    /\ parsed' = parse_speak(command)
    /\ UNCHANGED <<api_vars, reads, command, active_generation, stop_event, plan_queue,
                   play_queue, out, files, main_vars, synth_vars, play_vars, hist_vars>>

\* job = parse_pause(obj); an OverflowError leaves parse_pause uncaught.
ParsePause ==
    /\ parsed = NotParsed
    /\ command.op = "pause"
    /\ parsed' = IF IntOverflows(command.pause_ms) THEN Raised ELSE parse_pause(command)
    /\ UNCHANGED <<api_vars, reads, command, active_generation, stop_event, plan_queue,
                   play_queue, out, files, main_vars, synth_vars, play_vars, hist_vars>>

NextParse == ParseSpeak \/ ParsePause

SpecParse == InitParse /\ [][NextParse]_vars

\* ------------------------------------------------------------------ state_lock alone
\* get_generation and bump_generation step by step: main bumps, each stage
\* reads.  "with state_lock" is an acquire and a release; inside it the bump
\* loads the counter, stores the sum and reads the counter for its return.
\* reads keeps, for each call of get_generation, the counter when the call
\* began, the value read and the counter when the call returned.
Stages == {"synth", "play"}

\* state_lock is held by the thread that is inside a with block.
StateLockHolders ==
    {t \in Threads : PcOf(t) \in {"held", "seen", "loaded", "stored", "returning"}}

GenFrame ==
    UNCHANGED <<api_vars, parse_vars, stop_event, plan_queue, play_queue, out, files,
                main_job, main_exc, synth_job, synth_wav, synth_ms, play_item,
                play_code, hist_vars>>

InitGen ==
    /\ WorkerUnused
    /\ ApiUnused
    /\ ParseUnused
    /\ NoReads

\* A stage calls get_generation().
GetCall(t) ==
    /\ PcOf(t) = "unstarted"
    /\ Len(reads[t]) < MaxReads
    /\ reads' = [reads EXCEPT ![t] = Append(@,
           [called |-> active_generation, seen |-> active_generation,
            returned |-> active_generation, open |-> TRUE])]
    /\ SetPc(t, "wait")
    /\ UNCHANGED <<active_generation, new_generation>>
    /\ GenFrame

\* A get_generation that enters the with block without waiting for the lock.
GetAcquireNoLock(t) ==
    /\ PcOf(t) = "wait"
    /\ SetPc(t, "held")
    /\ UNCHANGED <<active_generation, new_generation, reads>>
    /\ GenFrame

\* with state_lock: the stage waits until no thread holds the lock.
GetAcquire(t) ==
    /\ PcOf(t) = "wait"
    /\ StateLockHolders = {}
    /\ SetPc(t, "held")
    /\ UNCHANGED <<active_generation, new_generation, reads>>
    /\ GenFrame

\* return active_generation: the counter is read.
GetRead(t) ==
    /\ PcOf(t) = "held"
    /\ reads' = [reads EXCEPT ![t][Len(reads[t])].seen = active_generation]
    /\ SetPc(t, "seen")
    /\ UNCHANGED <<active_generation, new_generation>>
    /\ GenFrame

\* The with block ends: the lock is released and the value returned.
GetRelease(t) ==
    /\ PcOf(t) = "seen"
    /\ reads' = [reads EXCEPT ![t][Len(reads[t])].returned = active_generation,
                              ![t][Len(reads[t])].open = FALSE]
    /\ SetPc(t, "unstarted")
    /\ UNCHANGED <<active_generation, new_generation>>
    /\ GenFrame

\* main calls bump_generation().
BumpCall ==
    /\ main_pc = "unstarted"
    /\ active_generation < MaxBumps
    /\ SetPc("main", "wait")
    /\ UNCHANGED <<active_generation, new_generation, reads>>
    /\ GenFrame

\* with state_lock.
BumpAcquire ==
    /\ main_pc = "wait"
    /\ StateLockHolders = {}
    /\ SetPc("main", "held")
    /\ UNCHANGED <<active_generation, new_generation, reads>>
    /\ GenFrame

\* active_generation += 1: the counter is loaded.
BumpLoad ==
    /\ main_pc = "held"
    /\ new_generation' = active_generation
    /\ SetPc("main", "loaded")
    /\ UNCHANGED <<active_generation, reads>>
    /\ GenFrame

\* active_generation += 1: the sum is stored.
BumpStore ==
    /\ main_pc = "loaded"
    /\ active_generation' = new_generation + 1
    /\ SetPc("main", "stored")
    /\ UNCHANGED <<new_generation, reads>>
    /\ GenFrame

\* return active_generation: the counter is read for the return value.
BumpReturn ==
    /\ main_pc = "stored"
    /\ new_generation' = active_generation
    /\ SetPc("main", "returning")
    /\ UNCHANGED <<active_generation, reads>>
    /\ GenFrame

\* The with block ends.
BumpRelease ==
    /\ main_pc = "returning"
    /\ SetPc("main", "unstarted")
    /\ UNCHANGED <<active_generation, new_generation, reads>>
    /\ GenFrame

NextGen ==
    \/ \E t \in Stages :
          GetCall(t) \/ GetAcquire(t) \/ GetRead(t) \/ GetRelease(t)
    \/ BumpCall \/ BumpAcquire \/ BumpLoad \/ BumpStore \/ BumpReturn \/ BumpRelease

SpecGen == InitGen /\ [][NextGen]_vars

\* ------------------------------------------------------------------ C21
PauseIds == {j.chunk_id : j \in {x \in Jobs : x.kind = "pause"}}

\* The positions of the Playback Stage's events for one id.
PlayPos(id) == {i \in 1..Len(out) : IsPlayEvent(out[i]) /\ out[i].id = id}

\* C21: while the Playback Stage sleeps for a pause p it holds p alone, and
\* no item on the play queue has a playback event; and every item the stage
\* takes after a pause p that passed its check has its playback events after
\* the pause_done of p.
C21_PauseIsABarrier ==
    /\ play_pc = "sleep"
          => /\ play_item.kind = "pause"
             /\ PlayPos(play_item.chunk_id) = {}
             /\ \A id \in QueuedForPlay : PlayPos(id) = {}
    /\ \A i, j \in 1..Len(checks.play) :
          (/\ i < j
           /\ checks.play[i].id \in PauseIds
           /\ checks.play[i].seen = checks.play[i].generation)
          => /\ Pos("pause_done", checks.play[i].id) # {}
             /\ Before(Pos("pause_done", checks.play[i].id),
                       PlayPos(checks.play[j].id))

\* A pause and then a speak job: the speak job was synthesized before the
\* pause ended and played after it.
C21_Witness ==
    \E p \in PauseIds : \E q \in SpeakIds :
        /\ Idx(p) < Idx(q)
        /\ \E s \in Pos("synth_done", q) : \E d \in Pos("pause_done", p) :
              \E e \in Pos("play_done", q) : s < d /\ d < e

\* ------------------------------------------------------------------ C22
IsItem(x) == x.kind # "none"
QueueIds(queue) ==
    [i \in 1..Len(SelectSeq(queue, IsItem)) |->
        ItemJob(SelectSeq(queue, IsItem)[i]).chunk_id]
CheckIds(stage) == [i \in 1..Len(checks[stage]) |-> checks[stage][i].id]
SubmittedIds == [i \in 1..Len(submitted) |-> submitted[i].job.chunk_id]

\* The jobs in the order they were pushed onto the plan queue: those the
\* Synthesis Stage has checked, the one it has taken and not checked yet, and
\* those still queued.
PlanPushed ==
    CheckIds("synth")
      \o (IF synth_pc = "check" THEN <<synth_job.chunk_id>> ELSE <<>>)
      \o QueueIds(plan_queue)

\* The items in the order they were pushed onto the play queue.
PlayPushed ==
    CheckIds("play")
      \o (IF play_pc = "check" THEN <<ItemJob(play_item).chunk_id>> ELSE <<>>)
      \o QueueIds(play_queue)

InSubmissionOrder(ids) ==
    \A i, j \in 1..Len(ids) : i < j => Idx(ids[i]) < Idx(ids[j])

\* C22: the plan queue is pushed in submission order, the play queue is
\* pushed in the same relative order, and the Playback Stage's events (plays,
\* pauses, playback errors) come out in that order.
C22_OrderKeptThroughBothStages ==
    /\ PlanPushed = SubmittedIds
    /\ InSubmissionOrder(PlayPushed)
    /\ \A p, q \in 1..Len(out) :
          (p < q /\ out[p].type \in {"play_done", "pause_done"} /\ IsPlayEvent(out[q]))
              => \E i, j \in 1..Len(checks.play) :
                    /\ i < j
                    /\ checks.play[i].id = out[p].id
                    /\ checks.play[j].id = out[q].id
                    /\ Idx(out[p].id) < Idx(out[q].id)

\* Two items went through the Playback Stage and were played or paused in
\* the order of their pushes, the second one synthesized or forwarded before
\* the first one's playback ended.
C22_Witness ==
    /\ Len(submitted) >= 2
    /\ Len(checks.play) >= 2
    /\ \E p, q \in 1..Len(out) :
          /\ p < q
          /\ out[p].type \in {"play_done", "pause_done"}
          /\ out[q].type \in {"play_done", "pause_done"}
          /\ out[p].id = checks.play[1].id
          /\ out[q].id = checks.play[2].id
          /\ \E s \in 1..Len(out) :
                s < p /\ IsSynthEvent(out[s]) /\ out[s].id = out[q].id

\* ------------------------------------------------------------------ C23
\* The call of validate_policy has returned or raised.
Decided == verdict # ""

\* Two strings that differ in the case of their letters at most.
SameLetters(a, b) ==
    /\ Len(a) = Len(b)
    /\ \A i \in 1..Len(a) :
          \/ a[i] = b[i]
          \/ \E k \in 1..Len(LowerCase) : {a[i], b[i]} = {LowerCase[k], UpperCase[k]}

IsOneOf(method, names) == \E name \in names : SameLetters(method, name)

\* C23: a DELETE is rejected with ERR_METHOD_BLOCKED_BY_MODE in read-only
\* and in safe-updates mode whatever confirm_delete is, rejected with
\* ERR_DELETE_CONFIRMATION_REQUIRED in full-access mode without
\* confirm_delete, and accepted in full-access mode with confirm_delete only.
C23_DeleteNeedsConfirmation ==
    (Decided /\ IsOneOf(request.method, {DELETE}))
    => /\ request.api_mode \in {"read-only", "safe-updates"}
            => verdict = "ERR_METHOD_BLOCKED_BY_MODE"
       /\ (request.api_mode = "full-access" /\ ~request.confirm_delete)
            => verdict = "ERR_DELETE_CONFIRMATION_REQUIRED"
       /\ verdict = Accepted
            <=> (request.api_mode = "full-access" /\ request.confirm_delete)

\* A delete written in lower case was refused in full-access mode for want
\* of the confirmation.
C23_Witness ==
    /\ request.method = <<"d", "e", "l", "e", "t", "e">>
    /\ request.api_mode = "full-access"
    /\ ~request.confirm_delete
    /\ verdict = "ERR_DELETE_CONFIRMATION_REQUIRED"

\* ------------------------------------------------------------------ C24
\* C24: in read-only mode a call is accepted if and only if its method is
\* GET, HEAD or OPTIONS in any letter case; every other call is rejected with
\* ERR_METHOD_BLOCKED_BY_MODE, whatever its body and confirm_delete are.
C24_ReadOnlyAcceptsReadsOnly ==
    (Decided /\ request.api_mode = "read-only")
    => /\ verdict = Accepted <=> IsOneOf(request.method, {GET, HEAD, OPTIONS})
       /\ verdict # Accepted => verdict = "ERR_METHOD_BLOCKED_BY_MODE"

\* A get written in lower case, with an unmarked body and confirm_delete,
\* was accepted in read-only mode.
C24_Witness ==
    /\ request.api_mode = "read-only"
    /\ request.method = <<"g", "e", "t">>
    /\ request.json_body = Unmarked
    /\ request.confirm_delete
    /\ verdict = Accepted

\* ------------------------------------------------------------------ C25
RECURSIVE StringValues(_)
\* The string values of a JSON value at every depth of objects and lists.
StringValues(value) ==
    IF Type(value) = "str" THEN {value.s}
    ELSE IF Type(value) = "dict"
         THEN UNION {StringValues(value.fields[i].value) : i \in 1..Len(value.fields)}
    ELSE IF Type(value) = "list"
         THEN UNION {StringValues(value.items[i]) : i \in 1..Len(value.items)}
    ELSE {}

\* C25: in safe-updates mode a POST, PUT or PATCH is accepted if and only if
\* its body is present, holds at least one string value at some depth and
\* every string value holds the marker; a missing body or an unmarked string
\* gives ERR_MARKER_MISSING, a body without any string value gives
\* ERR_UNMARKABLE_PAYLOAD.
C25_SafeUpdatesWantsMarkers ==
    (Decided /\ request.api_mode = "safe-updates"
             /\ IsOneOf(request.method, {POST, PUT, PATCH}))
    => LET body == request.json_body
           strings == StringValues(body)
       IN  /\ verdict = Accepted
                <=> /\ body # None
                    /\ strings # {}
                    /\ \A s \in strings : Contains(s, MARKER)
           /\ (body = None \/ \E s \in strings : ~Contains(s, MARKER))
                => verdict = "ERR_MARKER_MISSING"
           /\ (body # None /\ strings = {})
                => verdict = "ERR_UNMARKABLE_PAYLOAD"

\* A POST whose body has a marked name and an unmarked nested description
\* was refused with ERR_MARKER_MISSING.
C25_Witness ==
    /\ request.api_mode = "safe-updates"
    /\ request.method = POST
    /\ request.json_body =
          Dict(<<Field("name", Marked),
                 Field("metadata", Dict(<<Field("description", Unmarked)>>))>>)
    /\ verdict = "ERR_MARKER_MISSING"

\* ------------------------------------------------------------------ C26
\* The name the session file stores, None without a file.
StoredName(file) == IF file = None THEN None ELSE file.fields[1].value

Chosen(name) ==
    /\ context.code = "ok"
    /\ context.token_name = name
    /\ context.token_value = config.tokens[name]

\* C26: after any calls of set_session_token_name, load_runtime_context
\* takes the override if one is given, else the stored session token name if
\* the configuration defines it, else default_token; the value returned is
\* the configured value of the name returned; an override that names an
\* undefined token fails with ERR_TOKEN_NOT_FOUND.
C26_TokenPrecedence ==
    context.code # ""
    => LET override == context.override_token_name
           stored == StoredName(context.session_file)
       IN  IF override # None
           THEN IF override.s \in DOMAIN config.tokens
                THEN Chosen(override.s)
                ELSE context.code = "ERR_TOKEN_NOT_FOUND"
           ELSE IF stored # None /\ stored.s \in DOMAIN config.tokens
                THEN Chosen(stored.s)
                ELSE Chosen(config.default_token)

\* ------------------------------------------------------------------ C27
\* The positions of every event that carries the id.
EventPos(id) == {i \in 1..Len(out) : out[i].id = id}

\* The speak jobs whose SynthResult the Playback Stage found stale.
DroppedAtPlayback == {id \in SpeakIds : FoundStale("play", id)}

\* What the Playback Stage does with a stale SynthResult: the artifact file
\* is gone, the player was never started on it and the stage emitted nothing
\* for it.
DroppedQuietly(id) ==
    /\ id \notin files
    /\ ~Passed("play", id)
    /\ PlayPos(id) = {}
    /\ HeldByPlay(id) => play_pc \in {"loop", "get", "exited", "killed"}

\* C27: a stale SynthResult taken by the Playback Stage has its artifact
\* file deleted, is not played and yields no event, and the last event of
\* its speak job is the synth_done.
C27_StaleResultDropped ==
    \A id \in DroppedAtPlayback :
        /\ DroppedQuietly(id)
        /\ \A i \in EventPos(id) : \E s \in Pos("synth_done", id) : i <= s

\* C27 without the order of the ack: a stale SynthResult is dropped
\* quietly, and its job has a synth_done and no event of any stage after it.
C27_StaleResultDroppedSilently ==
    \A id \in DroppedAtPlayback :
        /\ DroppedQuietly(id)
        /\ Pos("synth_done", id) # {}
        /\ \A i \in EventPos(id) :
              (IsSynthEvent(out[i]) \/ IsPlayEvent(out[i]))
                 => out[i].type = "synth_done"

\* A job was synthesized, cleared while on the play queue and dropped there.
C27_Witness ==
    \E id \in DroppedAtPlayback :
        /\ \E s \in Pos("synth_done", id) : \E c \in Pos("cleared", <<>>) : s < c
        /\ HeldByPlay(id)
        /\ play_pc = "loop"
        /\ id \notin files

\* ------------------------------------------------------------------ C28
\* The pause items that are on the play queue or in the Playback Stage's
\* hands.
PausesInPlayback ==
    {play_queue[i] : i \in {k \in 1..Len(play_queue) : play_queue[k].kind = "pause"}}
    \cup (IF play_item.kind = "pause" THEN {play_item} ELSE {})

\* The id was taken from the play queue by the Playback Stage.
ReachedPlayback(id) ==
    id \in QueuedForPlay \/ HeldByPlay(id)
       \/ \E i \in 1..Len(checks.play) : checks.play[i].id = id

OnlyAcked(id) == \A i \in EventPos(id) : out[i].type = "ack"

\* C28: a PauseJob that reaches the play queue is the job as submitted (id,
\* pause_ms, generation) and passed the Synthesis Stage's check; one found
\* stale there never reaches the play queue and has no event but its ack;
\* one found stale by the Playback Stage is not slept on and has no event
\* but its ack.
C28_PauseForwardedOrDropped ==
    /\ \A item \in PausesInPlayback :
          item \in Jobs /\ Passed("synth", item.chunk_id)
    /\ \A id \in PauseIds :
          /\ (Passed("synth", id) /\ ~(synth_job.chunk_id = id /\ synth_pc = "forward"))
                => ReachedPlayback(id)
          /\ FoundStale("synth", id) => (~ReachedPlayback(id) /\ OnlyAcked(id))
          /\ FoundStale("play", id)
                => /\ OnlyAcked(id)
                   /\ ~Passed("play", id)
                   /\ HeldByPlay(id) => play_pc # "sleep"

\* A pause was forwarded by the Synthesis Stage, cleared while on the play
\* queue and dropped by the Playback Stage.
C28_Witness ==
    \E id \in PauseIds :
        /\ Passed("synth", id)
        /\ FoundStale("play", id)
        /\ HeldByPlay(id)
        /\ play_item \in Jobs

\* ------------------------------------------------------------------ C29
\* The jobs whose synthesis has started and has no outcome yet, and the items
\* whose playback or pause has started and has no outcome yet.
SynthesisOpen ==
    {id \in SpeakIds : Passed("synth", id) /\ ~SynthOk(id) /\ ~SynthErr(id)}

PlaybackOpen ==
    {id \in SpeakIds \cup PauseIds : Passed("play", id) /\ PlayPos(id) = {}}

\* C29: at most one job is being synthesized and at most one item is being
\* played or slept on, and it is the one the stage holds.
C29_OneItemPerStage ==
    /\ Cardinality(SynthesisOpen) <= 1
    /\ Cardinality(PlaybackOpen) <= 1
    /\ \A id \in SynthesisOpen : synth_job.chunk_id = id
    /\ \A id \in PlaybackOpen : HeldByPlay(id)

\* The Playback Stage plays a job while the Synthesis Stage synthesizes a
\* later one.
C29_Witness ==
    /\ play_pc = "play"
    /\ synth_pc = "synth"
    /\ Idx(play_item.job.chunk_id) < Idx(synth_job.chunk_id)
    /\ PlaybackOpen = {play_item.job.chunk_id}
    /\ SynthesisOpen = {synth_job.chunk_id}

\* ------------------------------------------------------------------ C30
\* The SynthResults that were pushed onto the play queue and are still
\* queued or in the Playback Stage's hands.
ResultsInPlayback ==
    {play_queue[i] : i \in {k \in 1..Len(play_queue) : play_queue[k].kind = "result"}}
    \cup (IF play_item.kind = "result" THEN {play_item} ELSE {})

\* C30: a SynthResult is on the play queue only after the synth_done of its
\* job was emitted, with the synth_ms the result holds; every play_done and
\* error{play} of an id comes after a synth_done of that id, and a play_done
\* carries that synth_done's synth_ms.
C30_SynthDoneComesFirst ==
    /\ \A item \in ResultsInPlayback :
          \E s \in Pos("synth_done", item.job.chunk_id) : out[s].n = item.synth_ms
    /\ \A id \in SpeakIds :
          /\ \A e \in ErrPos("play", id) : \E s \in Pos("synth_done", id) : s < e
          /\ \A d \in Pos("play_done", id) :
                \E s \in Pos("synth_done", id) : s < d /\ out[s].n = out[d].n

\* A job was played after a synthesis that took the longer of the two
\* durations, and another one failed in the player.
C30_Witness ==
    \E id \in SpeakIds :
        /\ \E s \in Pos("synth_done", id) : \E d \in Pos("play_done", id) :
              s < d /\ out[s].n = 2 /\ out[d].n = 2
        /\ \E other \in SpeakIds \ {id} : PlayErr(other)

\* ------------------------------------------------------------------ C31
\* C31: every PauseJob that parse_pause returns has pause_ms >= 0, a missing
\* or non-numeric pause_ms giving 0; every SpeakJob that parse_speak returns
\* has a speed above zero, a missing or malformed speed giving 1.0.
C31_PauseAndSpeedInRange ==
    /\ parsed.kind = "pause"
          => /\ parsed.pause_ms >= 0
             /\ command.pause_ms.tag \in {"absent", "bad"} => parsed.pause_ms = 0
    /\ parsed.kind = "speak"
          => /\ parsed.speed.kind = "finite" /\ parsed.speed.tenths > 0
             /\ command.speed.tag \in {"absent", "bad"} => parsed.speed = Float(10)

\* The half of C31 about pauses.
C31_PauseNeverNegative ==
    parsed.kind = "pause"
       => /\ parsed.pause_ms >= 0
          /\ command.pause_ms.tag \in {"absent", "bad"} => parsed.pause_ms = 0
          /\ (command.pause_ms.tag = "int" /\ command.pause_ms.val < 0)
                => parsed.pause_ms = 0

\* ------------------------------------------------------------------ C32
\* C32: at most one thread is inside a state_lock block, so no read falls
\* between the load and the store of a bump; every finished read returned a
\* value the counter had between the call and the return, that is the value
\* before or after each bump it overlapped; and the values one stage reads
\* never go down.
C32_ReadsSeeWholeBumps ==
    /\ Cardinality(StateLockHolders) <= 1
    /\ main_pc \in {"loaded", "stored", "returning"}
          => \A t \in Stages : PcOf(t) \notin {"held", "seen"}
    /\ \A t \in Stages : \A i \in 1..Len(reads[t]) :
          /\ ~reads[t][i].open
                => /\ reads[t][i].called <= reads[t][i].seen
                   /\ reads[t][i].seen <= reads[t][i].returned
          /\ \A j \in 1..Len(reads[t]) :
                (i < j /\ (j < Len(reads[t]) \/ PcOf(t) \in {"seen", "unstarted"}))
                   => reads[t][i].seen <= reads[t][j].seen

\* A read of the Synthesis Stage began before a bump and returned the value
\* after it, and the Playback Stage read the value before that bump and
\* later the value after it.
C32_Witness ==
    /\ Len(reads.synth) >= 1
    /\ ~reads.synth[1].open
    /\ reads.synth[1].called = 0
    /\ reads.synth[1].seen = 1
    /\ Len(reads.play) = 2
    /\ ~reads.play[2].open
    /\ reads.play[1].seen = 0
    /\ reads.play[2].seen = 1

\* ------------------------------------------------------------------ C33
\* The submitted jobs whose command carried an integer generation.
StampedRecords == {k \in 1..Len(submitted) : submitted[k].stamp.given}

\* The stage made its generation check on the id with the counter at x.
CheckedAt(stage, id, x) ==
    \E i \in 1..Len(checks[stage]) :
        checks[stage][i].id = id /\ checks[stage][i].seen = x

StageEvents(stage, id) ==
    {i \in EventPos(id) :
        IF stage = "synth" THEN IsSynthEvent(out[i]) ELSE IsPlayEvent(out[i])}

\* C33: a command with an integer generation X is enqueued and acked with
\* generation X whatever the counter is; a stage has events for the job only
\* if it found the counter at X when it checked the job, and it drops the job
\* if it found another value; a job stamped below the counter of its decode
\* time has no event but its ack, and one stamped above it has stage events
\* only after clears have brought the counter to X.
C33_CallerStampIsTrusted ==
    \A k \in StampedRecords :
        LET job == submitted[k].job
            id == job.chunk_id
            X == submitted[k].stamp.val
        IN  /\ job.generation = X
            /\ (main_pc # "ack" \/ main_job.chunk_id # id) => Pos("ack", id) # {}
            /\ \A stage \in Stages :
                  /\ StageEvents(stage, id) # {} => CheckedAt(stage, id, X)
                  /\ \A i \in 1..Len(checks[stage]) :
                        (checks[stage][i].id = id /\ checks[stage][i].seen # X)
                           => StageEvents(stage, id) = {}
                  /\ StageEvents(stage, id) # {} => active_generation >= X
            /\ X < submitted[k].born => OnlyAcked(id)

\* A job stamped with 1 while the counter was 0 was synthesized and played
\* after a clear.
C33_Witness ==
    \E k \in StampedRecords :
        /\ submitted[k].stamp.val = 1
        /\ submitted[k].born = 0
        /\ StageEvents("synth", submitted[k].job.chunk_id) # {}
        /\ StageEvents("play", submitted[k].job.chunk_id) # {}

\* ------------------------------------------------------------------ C34
\* The Synthesis Stage is at work on the id: between its generation check
\* and the end of its loop body.
SynthAtWork(id) ==
    synth_job.chunk_id = id /\ synth_pc \in {"synth", "put", "except", "killed"}

\* A clear raised the counter above the job's generation after the job had
\* passed the Synthesis Stage's check and before its synth_done was emitted.
ClearedDuringSynthesis(id) ==
    /\ Passed("synth", id)
    /\ \E c \in Pos("cleared", <<>>) : \E s \in Pos("synth_done", id) :
          c < s /\ out[c].n > Record(id).job.generation

\* C34: a speak job that passed the Synthesis Stage's check gets its
\* synth_done or its error{synth} whatever clears arrive meanwhile, and after
\* a synth_done its SynthResult is put on the play queue; if a clear came
\* during the synthesis the Playback Stage finds the result stale and drops
\* it.
C34_ClearNeverInterruptsSynthesis ==
    \A id \in SpeakIds :
        /\ (Passed("synth", id) /\ ~SynthAtWork(id)) => (SynthOk(id) \/ SynthErr(id))
        /\ (SynthOk(id) /\ ~SynthAtWork(id)) => ReachedPlayback(id)
        /\ ClearedDuringSynthesis(id)
              => /\ SynthAtWork(id) \/ ReachedPlayback(id)
                 /\ ~Passed("play", id)
                 /\ PlayPos(id) = {}
                 /\ (\E i \in 1..Len(checks.play) : checks.play[i].id = id)
                       => (FoundStale("play", id) /\ id \notin files)

\* A job was cleared during its synthesis, got its synth_done and was
\* dropped by the Playback Stage.
C34_Witness ==
    \E id \in SpeakIds :
        /\ ClearedDuringSynthesis(id)
        /\ FoundStale("play", id)
        /\ id \notin files

\* ------------------------------------------------------------------ C37
\* The checks a stage made with stop_event set: each is the start of the
\* processing of one dequeued item after the termination signal.
LateChecks(stage) ==
    {i \in 1..Len(checks[stage]) : checks[stage][i].stopped}

\* The stage holds an item it dequeued and has not yet checked.
Unchecked(stage) ==
    IF stage = "synth" THEN synth_pc = "check" ELSE play_pc = "check"

\* The items a stage started, or is about to start, after the signal.
StartedAfterStop(stage) ==
    Cardinality(LateChecks(stage))
       + (IF stop_event /\ Unchecked(stage) THEN 1 ELSE 0)

\* The jobs left on a queue.
LeftOn(q) == {ItemJob(q[i]).chunk_id : i \in {k \in 1..Len(q) : q[k].kind # "none"}}

\* C37: after stop_event is set each stage starts at most one more dequeued
\* item, and once a stage has left its loop the items still on its queue
\* have no event of that stage or of a later one, acked though they are.
C37_AtMostOneItemAfterStop ==
    /\ \A stage \in {"synth", "play"} : StartedAfterStop(stage) <= 1
    /\ Finished(synth_pc) => \A id \in LeftOn(plan_queue) : OnlyAcked(id)
    /\ Finished(play_pc) => \A id \in LeftOn(play_queue) : PlayPos(id) = {}

\* The worker has shut down, a stage started one item after the signal, and
\* an acked job is left on the plan queue without any other event.
C37_Witness ==
    /\ main_pc = "done"
    /\ Finished(synth_pc) /\ Finished(play_pc)
    /\ \E stage \in {"synth", "play"} : LateChecks(stage) # {}
    /\ \E id \in LeftOn(plan_queue) : Pos("ack", id) # {} /\ OnlyAcked(id)

\* ------------------------------------------------------------------ C38
\* How often a stage has taken the id from its queue: its checks of the id,
\* and the item it holds unchecked.
TimesTaken(stage, id) ==
    Cardinality({i \in 1..Len(checks[stage]) : checks[stage][i].id = id})
       + (IF stage = "synth"
          THEN (IF synth_pc = "check" /\ synth_job.chunk_id = id THEN 1 ELSE 0)
          ELSE (IF play_pc = "check" /\ HeldByPlay(id) THEN 1 ELSE 0))

\* How many items of a queue belong to the id.
TimesOn(q, id) ==
    Cardinality({i \in 1..Len(q) : q[i].kind # "none" /\ ItemJob(q[i]).chunk_id = id})

\* How often the player was started on the id's artifact: once for every
\* check of the Playback Stage that a SynthResult of the id passed.
TimesPlayed(id) ==
    Cardinality({i \in 1..Len(checks.play) :
        /\ checks.play[i].id = id
        /\ checks.play[i].seen = checks.play[i].generation
        /\ id \in SpeakIds})

\* C38: every submitted job is taken at most once by each stage, is at most
\* once on the play queue, has at most one synth_done, at most one of
\* play_done and pause_done, at most one error event, and the player runs
\* at most once on its artifact.
C38_NoJobProcessedTwice ==
    \A k \in 1..Len(submitted) :
        LET id == submitted[k].job.chunk_id IN
        /\ TimesOn(plan_queue, id) + TimesTaken("synth", id) <= 1
        /\ TimesOn(play_queue, id) + TimesTaken("play", id) <= 1
        /\ Cardinality(Pos("synth_done", id)) <= 1
        /\ Cardinality(Pos("play_done", id) \cup Pos("pause_done", id)) <= 1
        /\ Cardinality(ErrPos("synth", id) \cup ErrPos("play", id)) <= 1
        /\ TimesPlayed(id) <= 1

\* Two jobs went through both stages, each taken once by each, the first
\* with its synth_done and its play_done.
C38_Witness ==
    /\ Len(submitted) = 2
    /\ \A k \in 1..2 :
          /\ TimesTaken("synth", submitted[k].job.chunk_id) = 1
          /\ TimesTaken("play", submitted[k].job.chunk_id) = 1
    /\ SynthOk(submitted[1].job.chunk_id)
    /\ PlayOk(submitted[1].job.chunk_id)
    /\ TimesPlayed(submitted[1].job.chunk_id) = 1

\* ------------------------------------------------------------------ agent_api: config
\* dict.get(key): the value, or None.
Get(d, key) ==
    LET found == SelectSeq(d.fields, LAMBDA f : f.key = key)
    IN  IF found = <<>> THEN None ELSE found[1].value

READ_ONLY == <<"r", "e", "a", "d", "-", "o", "n", "l", "y">>
SAFE_UPDATES == <<"s", "a", "f", "e", "-", "u", "p", "d", "a", "t", "e", "s">>
FULL_ACCESS == <<"f", "u", "l", "l", "-", "a", "c", "c", "e", "s", "s">>
VALID_MODES == {READ_ONLY, SAFE_UPDATES, FULL_ACCESS}

ContextInvalid == [kind |-> "AgentApiError", code |-> "ERR_CONTEXT_INVALID"]

\* _require_string(data, key, ...) returns: the value is a str with something
\* but blanks in it.
IsRequiredString(value) == Type(value) = "str" /\ Strip(value.s) # <<>>

\* A token entry test that takes any str as value.
TokenEntryAnyString(f) == Type(f.value) = "str"

\* The test of one token entry; the keys of a TOML table are str.
TokenEntryOk(f) == Type(f.value) = "str" /\ Strip(f.value.s) # <<>>

\* normalized_tokens: the dict built entry by entry.
NormalizedTokens(tokens) ==
    [name \in {tokens.fields[i].key : i \in 1..Len(tokens.fields)} |-> Get(tokens, name)]

EnvConfig(project, env, api_base, api_mode, openapi_url, tokens) ==
    [project |-> project, env |-> env, api_base |-> api_base, api_mode |-> api_mode,
     openapi_url |-> openapi_url, tokens |-> tokens]

AppConfig(active_project, active_env, default_token, env_config) ==
    [kind |-> "AppConfig", active_project |-> active_project,
     active_env |-> active_env, default_token |-> default_token,
     env_config |-> env_config]

\* load_config from the tests on the env entry on: api_base, api_mode,
\* openapi_url, the mode, the token table, its entries, default_token.
LoadEnvEntry(active_project, active_env, default_token, env_entry) ==
    LET api_base == Get(env_entry, "api_base")
        api_mode == Get(env_entry, "api_mode")
        openapi_url == Get(env_entry, "openapi_url")
        tokens == Get(env_entry, "tokens")
    IN  IF ~IsRequiredString(api_base) THEN ContextInvalid
        ELSE IF ~IsRequiredString(api_mode) THEN ContextInvalid
        ELSE IF ~IsRequiredString(openapi_url) THEN ContextInvalid
        ELSE IF api_mode.s \notin VALID_MODES THEN ContextInvalid
        ELSE IF Type(tokens) # "dict" \/ tokens.fields = <<>> THEN ContextInvalid
        ELSE IF \E i \in 1..Len(tokens.fields) : ~TokenEntryOk(tokens.fields[i])
             THEN ContextInvalid
        ELSE IF default_token.s \notin DOMAIN NormalizedTokens(tokens)
             THEN ContextInvalid
        ELSE AppConfig(active_project.s, active_env.s, default_token.s,
                 EnvConfig(active_project.s, active_env.s, api_base.s, api_mode.s,
                           openapi_url.s, NormalizedTokens(tokens)))

\* load_config(config_path) on the data tomllib.load returned: the AppConfig,
\* or the AgentApiError raised.
load_config(data) ==
    LET active_project == Get(data, "active_project")
        active_env == Get(data, "active_env")
        default_token == Get(data, "default_token")
        projects == Get(data, "projects")
    IN  IF ~IsRequiredString(active_project) THEN ContextInvalid
        ELSE IF ~IsRequiredString(active_env) THEN ContextInvalid
        ELSE IF ~IsRequiredString(default_token) THEN ContextInvalid
        ELSE IF Type(projects) # "dict" THEN ContextInvalid
        ELSE LET project_entry == Get(projects, active_project.s)
             IN  IF Type(project_entry) # "dict" THEN ContextInvalid
                 ELSE LET envs == Get(project_entry, "envs")
                      IN  IF Type(envs) # "dict" THEN ContextInvalid
                          ELSE LET env_entry == Get(envs, active_env.s)
                               IN  IF Type(env_entry) # "dict" THEN ContextInvalid
                                   ELSE LoadEnvEntry(active_project, active_env,
                                                     default_token, env_entry)

\* A TOML table written with the keys that have a value.
Table(fields) == Dict(SelectSeq(fields, LAMBDA f : f.value # None))

\* Config files: the one of the tests (project p, env e, tokens s and u) with
\* every key taking good and bad values.
NameS == <<"s">>
NameU == <<"u">>
TokenValues == {Str(<<"t">>), Str(<<SP>>), Str(<<>>), Str(<<SP, "t">>), Num(1)}
TokenTables ==
    {None, Str(<<"t">>), Table(<<>>)}
    \cup {Table(<<Field(NameS, v)>>) : v \in TokenValues}
    \cup {Table(<<Field(NameS, Str(<<"t">>)), Field(NameU, v)>>) : v \in TokenValues}
ModeValues ==
    {None, Num(1), Str(READ_ONLY), Str(SAFE_UPDATES), Str(FULL_ACCESS),
     Str(<<"u", "n", "s", "a", "f", "e">>), Str(<<SP>>),
     Str(<<"R">> \o Tail(READ_ONLY)), Str(READ_ONLY \o <<SP>>)}
EnvEntries ==
    {Table(<<Field("api_base", b), Field("api_mode", m),
             Field("openapi_url", Str(<<"o">>)), Field("tokens", t)>>) :
        b \in {None, Str(<<"b">>)}, m \in ModeValues, t \in TokenTables}
    \cup {Table(<<Field("api_base", Str(<<"b">>)), Field("api_mode", Str(READ_ONLY)),
                  Field("tokens", Table(<<Field(NameS, Str(<<"t">>))>>))>>)}
ProjectTables ==
    {None, Str(<<"p">>)}
    \cup {Table(<<Field(<<"p">>, pe)>>) :
            pe \in {Str(<<"e">>), Table(<<>>), Table(<<Field("envs", Str(<<"e">>))>>)}}
    \cup {Table(<<Field(<<"p">>, Table(<<Field("envs", Table(<<Field(<<"e">>, ee)>>))>>))>>) :
            ee \in EnvEntries \cup {Str(<<"e">>)}}
DefaultTokens == {None, Num(1), Str(<<>>), Str(NameS), Str(NameU), Str(<<"x">>)}
ConfigFiles ==
    {Table(<<Field("active_project", ap), Field("active_env", ae),
             Field("default_token", dt), Field("projects", pr)>>) :
        ap \in {None, Str(<<"p">>), Str(<<"q">>)}, ae \in {Str(<<"e">>), Str(<<SP>>), Str(<<"f">>)},
        dt \in DefaultTokens, pr \in ProjectTables}

NotLoaded == [kind |-> "pending"]

\* A config file is about to be loaded.
InitConfig ==
    /\ WorkerUnused
    /\ ParseUnused
    /\ NoReads
    /\ request = [api_mode |-> "", method |-> <<>>, json_body |-> None,
                  confirm_delete |-> FALSE]
    /\ verdict = ""
    /\ session_file = None
    /\ context = NoContext
    /\ call = NoCall
    /\ http = <<>>
    /\ toml \in ConfigFiles
    /\ config = NotLoaded

\* load_config returns or raises.
LoadConfig ==
    /\ config = NotLoaded
    /\ config' = load_config(toml)
    /\ UNCHANGED <<worker_vars, toml, call, http, request, verdict, session_file, context>>

NextConfig == LoadConfig

SpecConfig == InitConfig /\ [][NextConfig]_vars

\* ------------------------------------------------------------------ C35
\* The env entry the file's active_project and active_env select, None if
\* the file has none.
ActiveEnvEntry(data) ==
    LET ap == Get(data, "active_project")
        ae == Get(data, "active_env")
        pr == Get(data, "projects")
    IN  IF Type(ap) # "str" \/ Type(ae) # "str" \/ Type(pr) # "dict" THEN None
        ELSE IF Type(Get(pr, ap.s)) # "dict" THEN None
        ELSE IF Type(Get(Get(pr, ap.s), "envs")) # "dict" THEN None
        ELSE IF Type(Get(Get(Get(pr, ap.s), "envs"), ae.s)) # "dict" THEN None
        ELSE Get(Get(Get(pr, ap.s), "envs"), ae.s)

NonBlankString(value) == Type(value) = "str" /\ \E i \in 1..Len(value.s) : value.s[i] # SP

\* The file breaks one of the three rules: the mode, the token table, the
\* default token.
BreaksARule(data) ==
    LET entry == ActiveEnvEntry(data)
        mode == IF entry = None THEN None ELSE Get(entry, "api_mode")
        tokens == IF entry = None THEN None ELSE Get(entry, "tokens")
        dt == Get(data, "default_token")
    IN  \/ Type(mode) # "str"
        \/ mode.s \notin {READ_ONLY, SAFE_UPDATES, FULL_ACCESS}
        \/ Type(tokens) # "dict"
        \/ Len(tokens.fields) = 0
        \/ \E i \in 1..Len(tokens.fields) : ~NonBlankString(tokens.fields[i].value)
        \/ Type(dt) # "str"
        \/ \A i \in 1..Len(tokens.fields) : tokens.fields[i].key # dt.s

\* C35: an AppConfig that load_config returns has one of the three modes, a
\* token table that is not empty and holds non-blank strings only, and a
\* default_token that is a key of the table; a file that breaks one of
\* these rules gets ERR_CONTEXT_INVALID and no AppConfig.
C35_LoadedConfigIsValid ==
    /\ config.kind = "AppConfig" =>
          /\ config.env_config.api_mode \in {READ_ONLY, SAFE_UPDATES, FULL_ACCESS}
          /\ DOMAIN config.env_config.tokens # {}
          /\ \A name \in DOMAIN config.env_config.tokens :
                NonBlankString(config.env_config.tokens[name])
          /\ config.default_token \in DOMAIN config.env_config.tokens
    /\ (config # NotLoaded /\ BreaksARule(toml)) =>
          (config.kind = "AgentApiError" /\ config.code = "ERR_CONTEXT_INVALID")

\* A file with two tokens, the second of them the default, was loaded into
\* an AppConfig.
C35_Witness ==
    /\ config.kind = "AppConfig"
    /\ DOMAIN config.env_config.tokens = {NameS, NameU}
    /\ config.default_token = NameU
    /\ ~BreaksARule(toml)

\* ------------------------------------------------------------------ agent_api: call
Digits == <<"0", "1", "2", "3", "4", "5", "6", "7", "8", "9">>
IsLetter(c) == \E k \in 1..Len(LowerCase) : c = LowerCase[k] \/ c = UpperCase[k]
IsDigit(c) == \E k \in 1..Len(Digits) : c = Digits[k]

\* str.lower()
Lower(s) ==
    [i \in 1..Len(s) |->
        IF \E k \in 1..Len(UpperCase) : UpperCase[k] = s[i]
        THEN LowerCase[CHOOSE k \in 1..Len(UpperCase) : UpperCase[k] = s[i]]
        ELSE s[i]]

\* str.startswith(prefix)
StartsWith(s, prefix) == Len(s) >= Len(prefix) /\ SubSeq(s, 1, Len(prefix)) = prefix

\* The index of the first c in s, 0 if there is none.
Find(s, c) ==
    IF \E i \in 1..Len(s) : s[i] = c
    THEN CHOOSE i \in 1..Len(s) : s[i] = c /\ \A k \in 1..(i - 1) : s[k] # c
    ELSE 0

\* str.rstrip("/")
RECURSIVE RStripSlash(_)
RStripSlash(s) ==
    IF s # <<>> /\ s[Len(s)] = "/" THEN RStripSlash(SubSeq(s, 1, Len(s) - 1)) ELSE s

\* _SCHEME_RE.match(path): ^[a-zA-Z][a-zA-Z0-9+.-]*://
SchemeMatch(path) ==
    \E k \in 1..(Len(path) - 3) :
        /\ IsLetter(path[1])
        /\ \A i \in 2..k : IsLetter(path[i]) \/ IsDigit(path[i]) \/ path[i] \in {"+", ".", "-"}
        /\ SubSeq(path, k + 1, k + 3) = <<":", "/", "/">>

BaseUrlOverrideBlocked ==
    [kind |-> "AgentApiError", code |-> "ERR_BASE_URL_OVERRIDE_BLOCKED"]

\* The call raised instead of returning r.
Raises(r) == "kind" \in DOMAIN r /\ r.kind = "AgentApiError"

\* urllib.parse.quote_plus on the characters the model writes queries with:
\* letters and digits stay, a blank becomes '+', the rest is percent-encoded.
PercentCode ==
    [c \in {"/", "=", ":", "&", "?"} |->
        IF c = "/" THEN <<"%", "2", "F">>
        ELSE IF c = "=" THEN <<"%", "3", "D">>
        ELSE IF c = ":" THEN <<"%", "3", "A">>
        ELSE IF c = "&" THEN <<"%", "2", "6">>
        ELSE <<"%", "3", "F">>]

RECURSIVE QuotePlus(_)
QuotePlus(s) ==
    IF s = <<>> THEN <<>>
    ELSE (IF s[1] = SP THEN <<"+">>
          ELSE IF s[1] \in DOMAIN PercentCode THEN PercentCode[s[1]]
          ELSE <<s[1]>>) \o QuotePlus(Tail(s))

\* urllib.parse.urlencode(pairs, doseq=True) for str values
RECURSIVE urlencode(_)
urlencode(pairs) ==
    IF pairs = <<>> THEN <<>>
    ELSE QuotePlus(pairs[1].key) \o <<"=">> \o QuotePlus(pairs[1].value)
            \o (IF Len(pairs) > 1 THEN <<"&">> \o urlencode(Tail(pairs)) ELSE <<>>)

\* build_url(api_base, path, query_pairs): the URL, or the error raised.
build_url(api_base, path, query_pairs) ==
    IF SchemeMatch(path) THEN BaseUrlOverrideBlocked
    ELSE IF ~StartsWith(path, <<"/">>) THEN BaseUrlOverrideBlocked
    ELSE LET url == RStripSlash(api_base) \o path
             query == urlencode(query_pairs)
         IN  IF query # <<>> THEN Str(url \o <<"?">> \o query) ELSE Str(url)

\* parse_query_items(query_items): the list of pairs, or the error raised.
RECURSIVE ParseQueryFrom(_)
ParseQueryFrom(items) ==
    IF items = <<>> THEN List(<<>>)
    ELSE LET raw == items[1]
             at == Find(raw, "=")
             rest == ParseQueryFrom(Tail(items))
         IN  IF at = 0 THEN ContextInvalid
             ELSE IF Raises(rest) THEN rest
             ELSE List(<<Field(SubSeq(raw, 1, at - 1), SubSeq(raw, at + 1, Len(raw)))>>
                          \o rest.items)

parse_query_items(query_items) ==
    ParseQueryFrom(IF query_items = None THEN <<>> ELSE query_items.items)

AUTHORIZATION == <<"a", "u", "t", "h", "o", "r", "i", "z", "a", "t", "i", "o", "n">>
AuthorizationKey == <<"A">> \o Tail(AUTHORIZATION)

\* A test for the header name exactly as HTTP writes it.
IsAuthorizationExact(normalized_key) == normalized_key = AuthorizationKey

\* normalized_key.lower() == "authorization"
IsAuthorization(normalized_key) == Lower(normalized_key) = AUTHORIZATION

\* parsed[key] = value on a dict that keeps insertion order.
SetItem(fields, key, value) ==
    IF \E i \in 1..Len(fields) : fields[i].key = key
    THEN [i \in 1..Len(fields) |->
            IF fields[i].key = key THEN Field(key, value) ELSE fields[i]]
    ELSE Append(fields, Field(key, value))

\* parse_header_items(header_items): the dict, or the error raised.
RECURSIVE ParseHeadersFrom(_, _)
ParseHeadersFrom(items, headers) ==
    IF items = <<>> THEN Dict(headers)
    ELSE LET raw == items[1]
             at == Find(raw, ":")
             normalized_key == Strip(SubSeq(raw, 1, at - 1))
             value == SubSeq(raw, at + 1, Len(raw))
         IN  IF at = 0 THEN ContextInvalid
             ELSE IF normalized_key = <<>> THEN ContextInvalid
             ELSE IF IsAuthorization(normalized_key) THEN BaseUrlOverrideBlocked
             ELSE ParseHeadersFrom(Tail(items),
                                   SetItem(headers, normalized_key, Strip(value)))

parse_header_items(header_items) ==
    ParseHeadersFrom(IF header_items = None THEN <<>> ELSE header_items.items, <<>>)

\* _format_auth_header(token_value)
BearerPrefix == <<"B", "e", "a", "r", "e", "r", SP>>
format_auth_header(token_value) ==
    LET stripped == Strip(token_value)
    IN  IF StartsWith(Lower(stripped), Lower(BearerPrefix)) THEN stripped
        ELSE BearerPrefix \o stripped

\* The --json and --json-file arguments: a text that json.loads reads as a
\* value, a text it rejects, the empty text; a file that holds such a text,
\* or no file at that path.
JsonText(value) == [kind |-> "json", value |-> value]
BadJson == [kind |-> "invalid"]
EmptyText == [kind |-> "empty"]
MissingFile == [kind |-> "missing"]

\* json.dumps(payload).encode("utf-8")
JsonBytes(payload) == [kind |-> "bytes", json |-> payload]

\* encode_json_payload(json_inline, json_file): (bytes, object), or the error.
encode_json_payload(json_inline, json_file) ==
    IF json_inline # None /\ json_inline # EmptyText /\ json_file # None
    THEN ContextInvalid
    ELSE IF json_inline = None /\ json_file = None
    THEN [kind |-> "payload", bytes |-> None, obj |-> None]
    ELSE LET text == IF json_file # None THEN json_file ELSE json_inline
         IN  IF text.kind # "json" THEN ContextInvalid
             ELSE [kind |-> "payload", bytes |-> JsonBytes(text.value),
                   obj |-> text.value]

\* urllib.request.Request(url=...) raises ValueError on a URL without a type:
\* nothing before the first ':' or a '/' before it.
HasUrlType(url) ==
    Find(url, ":") > 1 /\ \A i \in 1..(Find(url, ":") - 1) : url[i] # "/"

\* The arguments of the call command.
HeaderX == <<"X", ":", SP, "a">>
HeaderItems ==
    {None,
     List(<<HeaderX>>),
     List(<<AuthorizationKey \o <<":", SP, "b">>>>),
     List(<<AUTHORIZATION \o <<":", "b">>>>),
     List(<<Upper(AUTHORIZATION) \o <<":", "b">>>>),
     List(<<HeaderX, <<SP>> \o AUTHORIZATION \o <<SP, ":", "b">>>>),
     List(<<<<"X", ":", SP>> \o AUTHORIZATION>>),
     List(<<AUTHORIZATION \o <<"x", ":", "b">>>>),
     List(<<<<"X">>>>),
     List(<<<<":", "a">>>>),
     List(<<<<"c", "o", "n", "t", "e", "n", "t", "-", "t", "y", "p", "e", ":", "x">>,
            HeaderX>>)}

Paths ==
    {<<"/", "p">>, <<"p">>, <<>>, <<"/", "/", "e">>,
     <<"h", ":", "/", "/", "e">>, <<"H", "2", "+", ":", "/", "/", "e", "/", "p">>,
     <<SP, "/", "p">>, <<"/", "h", ":", "/", "/", "e">>}

QueryItems ==
    {None, List(<<<<"a", "=", "1">>>>), List(<<<<"a">>>>),
     List(<<<<"a", "=", "/", SP>>, <<"b", "=", "=">>>>)}

CallArgs ==
    [token : {None, Str(<<"u">>), Str(<<"x">>)},
     method : {<<"g", "e", "t">>, POST, DELETE},
     json : {None, JsonText(Dict(<<Field("name", Marked)>>)), BadJson},
     json_file : {None, JsonText(Dict(<<Field("name", Unmarked)>>))},
     confirm_delete : BOOLEAN,
     query : QueryItems,
     path : Paths,
     header : HeaderItems]

\* What load_config returned, as far as the call command reads it.
ApiBase == <<"h", ":", "/", "/", "b">>
CallConfigs ==
    [default_token : {<<"s">>},
     tokens : {[n \in {<<"s">>, <<"u">>} |->
                  IF n = <<"s">> THEN <<"t">> ELSE <<"b", "e", "a", "r", "e", "r", SP, "t", SP>>]},
     api_base : {ApiBase, ApiBase \o <<"/", "/">>, <<"b">>},
     api_mode : {"read-only", "safe-updates", "full-access"}]

\* The locals of cmd_call.
Started(args) ==
    [pc |-> "load_runtime_context", args |-> args, method |-> <<>>,
     payload_bytes |-> None, payload_obj |-> None, query_pairs |-> <<>>,
     url |-> <<>>, headers |-> <<>>, code |-> ""]

\* An AgentApiError leaves cmd_call; main prints it and returns 2.  The pc
\* stays at the call that raised.
Raise(code) == [call EXCEPT !.code = code]

Running(pc) == call.pc = pc /\ call.code = ""

\* The call command starts on a loaded configuration.
InitCall ==
    /\ WorkerUnused
    /\ ParseUnused
    /\ NoReads
    /\ request = [api_mode |-> "", method |-> <<>>, json_body |-> None,
                  confirm_delete |-> FALSE]
    /\ verdict = ""
    /\ session_file = None
    /\ context = NoContext
    /\ toml = None
    /\ http = <<>>
    /\ config \in CallConfigs
    /\ call \in {Started(args) : args \in CallArgs}

\* context = load_runtime_context(args.config, override_token_name=args.token);
\* method = args.method.upper()
CallLoadRuntimeContext ==
    /\ Running("load_runtime_context")
    /\ context' = load_runtime_context(config, session_file, call.args.token)
    /\ call' = IF context'.code # "ok" THEN Raise(context'.code)
               ELSE [call EXCEPT !.pc = "encode_json_payload",
                                 !.method = Upper(call.args.method)]
    /\ UNCHANGED <<worker_vars, toml, http, request, verdict, config, session_file>>

\* payload_bytes, payload_obj = encode_json_payload(args.json, args.json_file)
CallEncodeJsonPayload ==
    /\ Running("encode_json_payload")
    /\ LET r == encode_json_payload(call.args.json, call.args.json_file)
       IN  call' = IF Raises(r) THEN Raise(r.code)
                   ELSE [call EXCEPT !.pc = "validate_policy",
                                     !.payload_bytes = r.bytes, !.payload_obj = r.obj]
    /\ UNCHANGED <<worker_vars, toml, http, request, verdict, config, session_file, context>>

\* validate_policy(api_mode=env.api_mode, method=method, json_body=payload_obj,
\*                 confirm_delete=args.confirm_delete)
CallValidatePolicy ==
    /\ Running("validate_policy")
    /\ request' = [api_mode |-> config.api_mode, method |-> call.method,
                   json_body |-> call.payload_obj,
                   confirm_delete |-> call.args.confirm_delete]
    /\ verdict' = validate_policy(config.api_mode, call.method, call.payload_obj,
                                  call.args.confirm_delete)
    /\ call' = IF verdict' # Accepted THEN Raise(verdict')
               ELSE [call EXCEPT !.pc = "parse_query_items"]
    /\ UNCHANGED <<worker_vars, toml, http, config, session_file, context>>

\* query_pairs = parse_query_items(args.query)
CallParseQueryItems ==
    /\ Running("parse_query_items")
    /\ LET r == parse_query_items(call.args.query)
       IN  call' = IF Raises(r) THEN Raise(r.code)
                   ELSE [call EXCEPT !.pc = "build_url", !.query_pairs = r.items]
    /\ UNCHANGED <<worker_vars, toml, http, request, verdict, config, session_file, context>>

\* url = build_url(env.api_base, args.path, query_pairs)
CallBuildUrl ==
    /\ Running("build_url")
    /\ LET r == build_url(config.api_base, call.args.path, call.query_pairs)
       IN  call' = IF Raises(r) THEN Raise(r.code)
                   ELSE [call EXCEPT !.pc = "parse_header_items", !.url = r.s]
    /\ UNCHANGED <<worker_vars, toml, http, request, verdict, config, session_file, context>>

\* headers = parse_header_items(args.header)
CallParseHeaderItems ==
    /\ Running("parse_header_items")
    /\ LET r == parse_header_items(call.args.header)
       IN  call' = IF Raises(r) THEN Raise(r.code)
                   ELSE [call EXCEPT !.pc = "execute_request", !.headers = r.fields]
    /\ UNCHANGED <<worker_vars, toml, http, request, verdict, config, session_file, context>>

\* The headers cmd_call sends: Authorization set from the token, Content-Type
\* added to a payload that has none in any letter case.
ContentType == <<"C", "o", "n", "t", "e", "n", "t", "-", "T", "y", "p", "e">>
ApplicationJson == <<"a", "p", "p", "l", "i", "c", "a", "t", "i", "o", "n", "/", "j", "s", "o", "n">>
RequestHeaders(headers, token_value, payload_bytes) ==
    LET authorized == SetItem(headers, AuthorizationKey, format_auth_header(token_value))
    IN  IF /\ payload_bytes # None
           /\ \A i \in 1..Len(authorized) : Lower(authorized[i].key) # Lower(ContentType)
        THEN SetItem(authorized, ContentType, ApplicationJson)
        ELSE authorized

\* execute_request(method, url, headers, body): request.Request raises on a
\* URL without a type, else urlopen sends the request.
CallExecuteRequest ==
    /\ Running("execute_request")
    /\ LET headers == RequestHeaders(call.headers, context.token_value, call.payload_bytes)
       IN  IF ~HasUrlType(call.url)
           THEN /\ call' = [call EXCEPT !.headers = headers, !.code = ContextInvalid.code]
                /\ http' = http
           ELSE /\ call' = [call EXCEPT !.headers = headers, !.pc = "urlopen"]
                /\ http' = Append(http, [method |-> Upper(call.method), url |-> call.url,
                                         headers |-> headers, body |-> call.payload_bytes])
    /\ UNCHANGED <<worker_vars, toml, request, verdict, config, session_file, context>>

\* urlopen returns a response or raises HTTPError, and cmd_call prints the
\* status and returns 0.
CallResponse ==
    /\ Running("urlopen")
    /\ call' = [call EXCEPT !.pc = "returned"]
    /\ UNCHANGED <<worker_vars, toml, http, request, verdict, config, session_file, context>>

\* urlopen raises URLError: ERR_CONTEXT_INVALID.
CallNetworkError ==
    /\ Running("urlopen")
    /\ call' = Raise(ContextInvalid.code)
    /\ UNCHANGED <<worker_vars, toml, http, request, verdict, config, session_file, context>>

NextCall ==
    \/ CallLoadRuntimeContext
    \/ CallEncodeJsonPayload
    \/ CallValidatePolicy
    \/ CallParseQueryItems
    \/ CallBuildUrl
    \/ CallParseHeaderItems
    \/ CallExecuteRequest
    \/ CallResponse
    \/ CallNetworkError

SpecCall == InitCall /\ [][NextCall]_vars

\* ------------------------------------------------------------------ C36
LeadingSlash(path) == Len(path) > 0 /\ path[1] = "/"

\* The caller passed a header whose name is Authorization in some letter case.
CallerAuthorization(header) ==
    /\ header # None
    /\ \E i \in 1..Len(header.items) :
          /\ Find(header.items[i], ":") > 0
          /\ Lower(Strip(SubSeq(header.items[i], 1, Find(header.items[i], ":") - 1)))
                = AUTHORIZATION

\* The Authorization headers of a request, in any letter case.
AuthorizationHeaders(r) ==
    {k \in 1..Len(r.headers) : Lower(r.headers[k].key) = AUTHORIZATION}

CallEnded == call.code # "" \/ call.pc = "returned"

\* C36: a request is sent only after validate_policy accepted its method and
\* body for the configured api_mode; its URL is the configured api_base
\* (less trailing slashes) followed by the path given, which starts with
\* '/'; it has one Authorization header, made from the configured token.  A
\* path without leading '/' (an absolute URL is one) raises
\* ERR_BASE_URL_OVERRIDE_BLOCKED, a caller's Authorization header in any
\* letter case is rejected, and no request is sent after a rejection.
C36_RequestOnlyAfterAllChecks ==
    /\ Len(http) <= 1
    /\ \A i \in 1..Len(http) :
          /\ verdict = Accepted
          /\ request = [api_mode |-> config.api_mode, method |-> http[i].method,
                        json_body |-> call.payload_obj,
                        confirm_delete |-> call.args.confirm_delete]
          /\ http[i].method = Upper(call.args.method)
          /\ IF http[i].body = None THEN request.json_body = None
             ELSE http[i].body.json = request.json_body
          /\ LeadingSlash(call.args.path)
          /\ StartsWith(http[i].url, RStripSlash(config.api_base) \o call.args.path)
          /\ Cardinality(AuthorizationHeaders(http[i])) = 1
          /\ \A k \in AuthorizationHeaders(http[i]) :
                http[i].headers[k].value
                   = format_auth_header(config.tokens[context.token_name])
          /\ ~CallerAuthorization(call.args.header)
    /\ (call.code # "" /\ call.pc # "urlopen") => http = <<>>
    /\ (call.code # "" /\ call.pc = "build_url") =>
          (call.code = "ERR_BASE_URL_OVERRIDE_BLOCKED" /\ ~LeadingSlash(call.args.path))
    /\ (CallEnded /\ ~LeadingSlash(call.args.path)) => (call.code # "" /\ http = <<>>)
    /\ (CallEnded /\ CallerAuthorization(call.args.header)) =>
          (call.code # "" /\ http = <<>>)
    /\ call.pc \in {"execute_request", "urlopen", "returned"} =>
          (LeadingSlash(call.args.path) /\ ~CallerAuthorization(call.args.header))

\* A POST with a body, a query and two headers of the caller was accepted
\* and sent under the second token, to an api_base written with trailing
\* slashes.
C36_Witness ==
    /\ call.pc = "returned"
    /\ Len(http) = 1
    /\ http[1].method = POST
    /\ http[1].body # None
    /\ Len(http[1].headers) = 3
    /\ config.api_base = ApiBase \o <<"/", "/">>
    /\ http[1].url = ApiBase \o <<"/", "p", "?", "a", "=", "%", "2", "F", "+", "&",
                                  "b", "=", "%", "3", "D">>
    /\ context.token_name = <<"u">>
    /\ \E k \in 1..3 : http[1].headers[k] = Field(AuthorizationKey, <<"b", "e", "a", "r", "e", "r", SP, "t">>)

====
